---- MODULE Spec2Model ----
(***************************************************************************)
(* A model of the clabel-js P-Touch label printer server:                  *)
(*   - the readable command codec (server/src/Readable.js),                *)
(*   - the status report codec (PTouchStatus / PrinterStatus) and the     *)
(*     model table (Models),                                               *)
(*   - the raster encoder and the driver (PTouch).                         *)
(* Bytes, lengths and codes are integers, with `undefined` and NaN as the   *)
(* two negative integers Undefined and NaN that no byte or length can       *)
(* take; the dimensions of a status record are exact fractions.            *)
(***************************************************************************)
EXTENDS Integers, Sequences, FiniteSets, TLC

VARIABLES
  c_dir,      \* codec: "text" (commands -> bytes -> commands), "bytes" (a
              \* command stream -> commands -> bytes) or "raw" (bytes decoded)
  c_pc,       \* codec: "start", "mid", "done"
  c_in,       \* codec: the input, a list of text commands or a byte buffer
  c_mid,      \* codec: what the first conversion returned or threw
  c_back,     \* codec: what the second conversion returned or threw
  s_kind,     \* status: "report" (a raw block is parsed) or "template" (a
              \* status is built from a default status block)
  s_raw,      \* status: the raw report
  s_template, \* status: the default status block
  s_new,      \* status: what PTouchStatus returned or threw
  s_old,      \* status: what PrinterStatus returned or threw
  m_lookup,   \* models: the lookup asked for, by "name", by "code" or
              \* "default", with its argument
  m_found,    \* models: what the lookup returned
  i_status,   \* image: the status of the driver that prints
  i_image,    \* image: the RGBA buffer
  i_width,    \* image: its width in pixels
  i_height,   \* image: its height in pixels
  i_result,   \* image: what printImage did
  d_file,        \* driver: the file it is from, "PTouch.js" (in
                 \* src/server/src) or "part_003" (in src/unnamed)
  d_write_only,  \* driver: this.write_only
  d_status,      \* driver: this.status
  d_fd,          \* driver: this.fd, "undefined" or "open"
  d_initialised, \* driver: this.initialised
  d_statusBlock, \* driver: this.statusBlock
  d_listening,   \* driver: the listener of initialise() is registered
  d_init,        \* driver: where the promise chain of initialise() is
  d_inits,       \* driver: the calls of initialise(), each with what it did
  d_reads,       \* driver: reads of pollStatus under way
  d_timers,      \* driver: polls set for later
  d_print,       \* driver: where printImage() is
  d_image,       \* driver: the image, width and height given to printImage
  d_device,      \* device: the bytes the printer has yet to send
  d_written,     \* device: the bytes written to it
  d_events,      \* driver: the status changes announced, each with
                 \* this.status at that moment
  d_eject,       \* client: the call of eject() and what it wrote
  d_await,       \* client: the call of awaitPrinted()
  a_write_only,  \* older driver: this.write_only
  a_status,      \* older driver: this.status
  a_initialised, \* older driver: this.initialised
  a_pc,          \* older driver: where the promise chain of initialise() is
  a_replies,     \* device: what it has to answer the reads to come, a
                 \* reply per read; nothing once they are used up
  a_written,     \* device: the bytes written to it, up to the last
                 \* request that is counted
  a_attempts     \* older driver: the calls of getStatusReport(), counted
                 \* up to MaxAttempts

codecVars == <<c_dir, c_pc, c_in, c_mid, c_back>>

statusVars == <<s_kind, s_raw, s_template, s_new, s_old>>

modelsVars == <<m_lookup, m_found>>

imageVars == <<i_status, i_image, i_width, i_height, i_result>>

driverVars ==
  <<d_file, d_write_only, d_status, d_fd, d_initialised, d_statusBlock,
    d_listening, d_init, d_inits, d_reads, d_timers, d_print, d_image,
    d_device, d_written, d_events, d_eject, d_await>>

acquireVars ==
  <<a_write_only, a_status, a_initialised, a_pc, a_replies, a_written,
    a_attempts>>

vars ==
  <<codecVars, statusVars, modelsVars, imageVars, driverVars, acquireVars>>

notCodecVars == <<statusVars, modelsVars, imageVars, driverVars, acquireVars>>

notStatusVars == <<codecVars, modelsVars, imageVars, driverVars, acquireVars>>

notModelsVars == <<codecVars, statusVars, imageVars, driverVars, acquireVars>>

notImageVars == <<codecVars, statusVars, modelsVars, driverVars, acquireVars>>

notDriverVars ==
  <<codecVars, statusVars, modelsVars, imageVars, acquireVars>>

notAcquireVars == <<codecVars, statusVars, modelsVars, imageVars, driverVars>>

(***************************************************************************)
(* JavaScript values                                                       *)
(***************************************************************************)

\* The value read past the end of a buffer or array.
Undefined == -1

\* The result of arithmetic on undefined, and of parseInt on a non-number.
NaN == -2

IsNumber(v) == v >= 0

\* Buffer.from(array) / Uint8Array element store: ToUint8 of each element.
\* NaN and undefined become 0, other numbers wrap modulo 256.
ToUint8(v) == IF IsNumber(v) THEN v % 256 ELSE 0

\* buff[i] for a 0-based index i: undefined past the end.
At(buff, i) == IF i >= 0 /\ i < Len(buff) THEN buff[i + 1] ELSE Undefined

\* The two bytes taken in the other order.
AddMul256BigEndian(a, b) == IF IsNumber(a) /\ IsNumber(b) THEN a * 256 + b ELSE NaN

\* a + b * 256 in JavaScript: NaN as soon as one operand is undefined.
AddMul256(a, b) == IF IsNumber(a) /\ IsNumber(b) THEN a + b * 256 ELSE NaN

HexDigits == <<"0", "1", "2", "3", "4", "5", "6", "7",
               "8", "9", "a", "b", "c", "d", "e", "f">>

IsDecDigit(c) == \E k \in 1..10 : HexDigits[k] = c

IsHexDigit(c) == \E k \in 1..16 : HexDigits[k] = c

DigitVal(c) == (CHOOSE k \in 1..16 : HexDigits[k] = c) - 1

\* Number.prototype.toString(10), as a sequence of characters.
RECURSIVE ToDecimal(_)
ToDecimal(n) ==
  IF n < 10 THEN <<HexDigits[n + 1]>>
  ELSE ToDecimal(n \div 10) \o <<HexDigits[(n % 10) + 1]>>

\* `${v}` for a number, undefined or NaN.
NumStr(v) ==
  IF v = Undefined THEN <<"u", "n", "d", "e", "f", "i", "n", "e", "d">>
  ELSE IF v = NaN THEN <<"N", "a", "N">>
  ELSE ToDecimal(v)

\* Number(v).toString(16).padStart(2, "0")
HexStr(v) ==
  IF ~IsNumber(v) THEN <<"N", "a", "N">>
  ELSE IF v < 16 THEN <<"0", HexDigits[v + 1]>>
  ELSE <<HexDigits[(v \div 16) + 1], HexDigits[(v % 16) + 1]>>

\* parseInt(s) of a string given as characters: the value of the longest
\* prefix of decimal digits, NaN when there is none.
RECURSIVE ParseDec(_, _, _)
ParseDec(s, k, acc) ==
  IF k > Len(s) \/ ~IsDecDigit(s[k]) THEN acc
  ELSE ParseDec(s, k + 1, (IF acc = NaN THEN 0 ELSE acc) * 10 + DigitVal(s[k]))

ParseInt(s) == ParseDec(s, 1, NaN)

\* param[i] for a 0-based index i of a string: the string "undefined" (what
\* the template literal makes of it) past the end.
CharAt(s, i) == IF i >= 0 /\ i < Len(s) THEN s[i + 1] ELSE "undefined"

\* A parseInt that forgets the radix.
ParseHexPairRadix10(a, b) ==
  IF ~IsDecDigit(a) THEN NaN
  ELSE IF ~IsDecDigit(b) THEN DigitVal(a)
  ELSE DigitVal(a) * 10 + DigitVal(b)

\* parseInt(`${a}${b}`, 16) where a and b are characters or "undefined".
ParseHexPair(a, b) ==
  IF ~IsHexDigit(a) THEN NaN
  ELSE IF ~IsHexDigit(b) THEN DigitVal(a)
  ELSE DigitVal(a) * 16 + DigitVal(b)

(***************************************************************************)
(* Readable.js: fromBinary                                                 *)
(* A text command is a sequence of characters, except that a verb is one   *)
(* token: "Raster 0a" is <<"Raster", " ", "0", "a">>.                      *)
(***************************************************************************)

Returned(v) == [ok |-> TRUE, value |-> v, error |-> "none"]

Thrown(e) == [ok |-> FALSE, value |-> <<>>, error |-> e]

RECURSIVE SeqsUpTo(_, _)
SeqsUpTo(n, S) ==
  IF n = 0 THEN {<<>>}
  ELSE LET shorter == SeqsUpTo(n - 1, S)
       IN shorter \cup {Append(q, x) : q \in {r \in shorter : Len(r) = n - 1}, x \in S}

RECURSIVE Flatten(_)
Flatten(ss) == IF ss = <<>> THEN <<>> ELSE Head(ss) \o Flatten(Tail(ss))

\* A call that has not been made yet.
NoResult == [ok |-> FALSE, value |-> <<>>, error |-> "not run"]

\* The payload of a Raster command as text: `length` bytes from index i on,
\* each in two hex digits; a byte past the end of the buffer reads as
\* undefined and prints as "NaN".
RasterText(buff, i, length) ==
  LET inside == IF i + length <= Len(buff) THEN length
                ELSE IF i < Len(buff) THEN Len(buff) - i ELSE 0
      outside == length - inside
  IN [k \in 1..(2 * inside) |-> HexStr(buff[i + ((k + 1) \div 2)])[2 - (k % 2)]]
     \o [k \in 1..(3 * outside) |-> <<"N", "a", "N">>[((k - 1) % 3) + 1]]

RECURSIVE fromBinaryLoop(_, _, _, _)
fromBinaryLoop(buff, i, output, turns) ==
  IF ~(i < Len(buff)) THEN Returned(output)
  ELSE IF turns = 0 THEN [value |-> output, at |-> i]
  ELSE
    LET b0 == At(buff, i)
        b1 == At(buff, i + 1)
        b2 == At(buff, i + 2)
    IN
    CASE b0 = 0 -> fromBinaryLoop(buff, i + 1, Append(output, <<"Invalidate">>), turns - 1)
      [] b0 = 27 ->  \* 0x1B
           CASE b1 = 64 ->  \* 0x40
                  fromBinaryLoop(buff, i + 2, Append(output, <<"Initialise_clear">>), turns - 1)
             [] b1 = 105 ->  \* 0x69
                  CASE b2 = 83 ->  \* 0x53
                         fromBinaryLoop(buff, i + 3, Append(output, <<"Status">>), turns - 1)
                    [] b2 = 82 ->  \* 0x52
                         fromBinaryLoop(buff, i + 4,
                           Append(output, <<"Raster_mode", " ">> \o NumStr(At(buff, i + 3))), turns - 1)
                    [] b2 = 100 ->  \* 0x64
                         fromBinaryLoop(buff, i + 5,
                           Append(output, <<"Feed", " ">>
                                    \o NumStr(AddMul256(At(buff, i + 3), At(buff, i + 4)))), turns - 1)
                    [] OTHER ->
                         \* the message reads buff[i-1].toString(16)
                         IF b2 = Undefined THEN Thrown("TypeError")
                         ELSE Thrown("Command error")
             [] OTHER ->
                  IF b1 = Undefined THEN Thrown("TypeError")
                  ELSE Thrown("Protocol violation")
      [] b0 = 26 -> fromBinaryLoop(buff, i + 1, Append(output, <<"Print", " ", "1">>), turns - 1)
      [] b0 = 12 -> fromBinaryLoop(buff, i + 1, Append(output, <<"Print", " ", "0">>), turns - 1)
      [] b0 = 90 -> fromBinaryLoop(buff, i + 1, Append(output, <<"Empty_raster">>), turns - 1)
      [] b0 = 77 ->  \* 0x4D
           fromBinaryLoop(buff, i + 2,
             Append(output, <<"Compress", " ">> \o NumStr(At(buff, i + 1))), turns - 1)
      [] b0 = 71 ->  \* 0x47
           LET length == AddMul256(b1, b2)
               n == IF IsNumber(length) THEN length ELSE 0
           IN fromBinaryLoop(buff, i + 3 + n,
                Append(output, <<"Raster", " ">> \o RasterText(buff, i + 3, n)), turns - 1)
      [] OTHER -> Thrown("Protocol violation")

\* The loop is run sixteen commands at a time, so that a long buffer is
\* decoded without deep recursion.
RECURSIVE fromBinaryFrom(_, _, _)
fromBinaryFrom(buff, i, output) ==
  LET Continue(run) ==
        IF "at" \in DOMAIN run THEN fromBinaryFrom(buff, run.at, run.value)
        ELSE run
  IN Continue(fromBinaryLoop(buff, i, output, 16))

fromBinary(buff) == fromBinaryFrom(buff, 0, <<>>)

(***************************************************************************)
(* Readable.js: toBinary                                                   *)
(***************************************************************************)

RECURSIVE SortedSeq(_)
SortedSeq(S) ==
  IF S = {} THEN <<>>
  ELSE LET m == CHOOSE x \in S : \A y \in S : x <= y
       IN <<m>> \o SortedSeq(S \ {m})

\* command.split(/\s+/): the fields between maximal runs of spaces; a
\* leading or trailing run leaves an empty first or last field.
Split(command) ==
  LET n == Len(command)
      ws == {k \in 1..n : command[k] = " "}
      starts == {k \in (1..n) \ ws : k = 1 \/ (k - 1) \in ws}
      EndOf(k) == IF \E w \in ws : w > k
                  THEN (CHOOSE w \in ws : w > k /\ \A v \in ws : v > k => w <= v) - 1
                  ELSE n
      order == SortedSeq(starts)
      fields == [j \in 1..Len(order) |-> SubSeq(command, order[j], EndOf(order[j]))]
  IN (IF n = 0 \/ 1 \in ws THEN <<  <<>>  >> ELSE <<>>)
     \o fields
     \o (IF n >= 1 /\ n \in ws THEN <<  <<>>  >> ELSE <<>>)

\* The bytes one command pushes on buff (before Buffer.from), or a throw.
CommandBytes(command) ==
  LET cmd == Split(command)
      verb == cmd[1]
      hasParam == Len(cmd) >= 2
      \* parseInt(undefined) is parseInt("undefined")
      param == IF hasParam THEN cmd[2] ELSE <<"undefined">>
  IN
  CASE verb = <<"Invalidate">> -> Returned(<<0>>)
    [] verb = <<"Initialise_clear">> -> Returned(<<27, 64>>)
    [] verb = <<"Status">> -> Returned(<<27, 105, 83>>)
    [] verb = <<"Raster_mode">> -> Returned(<<27, 105, 82, ParseInt(param)>>)
    [] verb = <<"Feed">> ->
         LET v == ParseInt(param)
         IN Returned(<<27, 105, 100,
                       IF IsNumber(v) THEN v % 256 ELSE NaN,
                       IF IsNumber(v) THEN v \div 256 ELSE NaN>>)
    [] verb = <<"Print">> -> Returned(<<IF param = <<"1">> THEN 26 ELSE 12>>)
    [] verb = <<"Empty_raster">> -> Returned(<<90>>)
    [] verb = <<"Compress">> -> Returned(<<77, ParseInt(param)>>)
    [] verb = <<"Raster">> ->
         IF ~hasParam THEN Thrown("TypeError")  \* param.length of undefined
         ELSE
           LET len == Len(param)
               \* (len / 2) % 256 is fractional for an odd len; the byte store
               \* truncates it
               pairs == (len + 1) \div 2
           IN Returned(<<71, (len \div 2) % 256, len \div 512>>
                \o [k \in 1..pairs |->
                      ParseHexPair(CharAt(param, 2 * k - 2), CharAt(param, 2 * k - 1))])
    [] OTHER -> Thrown("toBinary error")

RECURSIVE toBinaryLoop(_, _, _)
toBinaryLoop(commands, k, buff) ==
  IF k > Len(commands) THEN Returned([j \in 1..Len(buff) |-> ToUint8(buff[j])])
  ELSE LET r == CommandBytes(commands[k])
       IN IF r.ok THEN toBinaryLoop(commands, k + 1, buff \o r.value) ELSE r

toBinary(commands) == toBinaryLoop(commands, 1, <<>>)

\* ---------------------------------------------------------------------------
\* Numbers of a status record.  The dimensions are fractions (18 / 128 mm per
\* pixel, 12 / 0.140625 pixels of tape), so a number is the pair <<n, d>> of
\* an irreducible fraction with d > 0; the remaining JavaScript values are
\* pairs with d <= 0.  Negative zero is not distinguished from zero.
\* ---------------------------------------------------------------------------

RECURSIVE GCD(_, _)
GCD(a, b) == IF b = 0 THEN a ELSE GCD(b, a % b)

Abs(a) == IF a < 0 THEN -a ELSE a

\* The fraction n / d, d # 0, in lowest terms.
Rat(n, d) ==
  LET g == GCD(Abs(n), Abs(d))
      s == IF d < 0 THEN -1 ELSE 1
  IN <<(s * n) \div g, (s * d) \div g>>

Num(n) == <<n, 1>>

NumNaN == <<0, 0>>

Infinity == <<1, 0>>

NumUndefined == <<0, -1>>

IsFinite(x) == x[2] > 0

\* ToNumber(undefined) is NaN.
ToNumber(x) == IF x = NumUndefined THEN NumNaN ELSE x

Sign(x) == IF x[1] > 0 THEN 1 ELSE IF x[1] < 0 THEN -1 ELSE 0

\* a * b
Times(a, b) ==
  LET x == ToNumber(a)
      y == ToNumber(b)
  IN IF x = NumNaN \/ y = NumNaN THEN NumNaN
     ELSE IF IsFinite(x) /\ IsFinite(y) THEN Rat(x[1] * y[1], x[2] * y[2])
     ELSE IF Sign(x) * Sign(y) = 0 THEN NumNaN
     ELSE <<Sign(x) * Sign(y), 0>>

\* a / b: 0 / 0 is NaN, x / 0 is an infinity.
Over(a, b) ==
  LET x == ToNumber(a)
      y == ToNumber(b)
  IN IF x = NumNaN \/ y = NumNaN THEN NumNaN
     ELSE IF IsFinite(x) /\ IsFinite(y)
          THEN IF y[1] = 0
               THEN (IF x[1] = 0 THEN NumNaN ELSE <<Sign(x), 0>>)
               ELSE Rat(x[1] * y[2], x[2] * y[1])
     ELSE IF IsFinite(x) THEN Num(0)
     ELSE IF IsFinite(y) THEN <<Sign(x) * (IF y[1] < 0 THEN -1 ELSE 1), 0>>
     ELSE NumNaN

\* a + b
Plus(a, b) ==
  LET x == ToNumber(a)
      y == ToNumber(b)
  IN IF x = NumNaN \/ y = NumNaN THEN NumNaN
     ELSE IF IsFinite(x) /\ IsFinite(y)
          THEN Rat(x[1] * y[2] + y[1] * x[2], x[2] * y[2])
     ELSE IF IsFinite(x) THEN y
     ELSE IF IsFinite(y) \/ x = y THEN x
     ELSE NumNaN

\* a - b
Minus(a, b) == Plus(a, Times(Num(-1), b))

\* a < b: false as soon as one side is NaN.
LessThan(a, b) ==
  LET x == ToNumber(a)
      y == ToNumber(b)
  IN IF x = NumNaN \/ y = NumNaN THEN FALSE
     ELSE IF IsFinite(x) /\ IsFinite(y) THEN x[1] * y[2] < y[1] * x[2]
     ELSE IF IsFinite(x) THEN Sign(y) > 0
     ELSE IF IsFinite(y) THEN Sign(x) < 0
     ELSE Sign(x) < Sign(y)

\* a == b on numbers: NaN equals nothing, itself included.
NumEq(a, b) == a # NumNaN /\ b # NumNaN /\ a = b

\* a <= b
AtMost(a, b) == LessThan(a, b) \/ NumEq(ToNumber(a), ToNumber(b))

\* Math.floor(a)
Floor(a) ==
  LET x == ToNumber(a)
  IN IF IsFinite(x) THEN Num(x[1] \div x[2]) ELSE x

\* Math.ceil(a)
Ceil(a) ==
  LET x == ToNumber(a)
  IN IF IsFinite(x) THEN Num(-((-x[1]) \div x[2])) ELSE x

Half == Rat(1, 2)

\* A field that holds a string in one place and a number in another.
JsString(s) == <<"string", s, 0>>

JsNumber(n) == <<"number", "", n>>

\* status[key] for a key the object may lack.
Field(status, key, undef) == IF key \in DOMAIN status THEN status[key] ELSE undef

\* ---------------------------------------------------------------------------
\* Models.js: the model table.
\* ---------------------------------------------------------------------------

DEFAULT_PT1230 ==
  [raster_px |-> Num(128), raster_mm |-> Num(18),
   printable_width_px |-> Num(64), printable_width_mm |-> Num(9),
   media_type |-> JsString("Laminated"), media_width_mm |-> Num(12)]

Model(deviceCode, name, defaultStatus) ==
  [deviceCode |-> deviceCode, name |-> name, defaultStatus |-> defaultStatus]

MODELS ==
  << Model(89, "PT1230", DEFAULT_PT1230),
     Model(74, "PT500", DEFAULT_PT1230),
     Model(100, "PT-H500", DEFAULT_PT1230),
     Model(101, "PT-E500", DEFAULT_PT1230),
     Model(103, "PT-P700", DEFAULT_PT1230),
     Model(105, "PT-P900W", DEFAULT_PT1230),
     Model(112, "PT-P950NW", DEFAULT_PT1230),
     Model(113, "PT-P900",
           [raster_px |-> Num(512), raster_mm |-> Num(36),
            printable_width_px |-> Num(454),
            printable_width_mm |-> Rat(3203, 100),
            media_type |-> JsString("Laminated"),
            media_width_mm |-> Num(36)]),
     Model(120, "PT-P910BT", DEFAULT_PT1230) >>

\* What a table entry without defaultStatus, or a lookup that finds
\* nothing, holds.
NoDefaultStatus == [none |-> TRUE]

NoModel == Model(Undefined, "undefined", NoDefaultStatus)

\* A lookup that falls back on the first entry of the table.
getModelOrDefault(code) ==
  LET found == {i \in 1..Len(MODELS) : MODELS[i].deviceCode = code}
  IN IF found = {} THEN MODELS[1]
     ELSE MODELS[CHOOSE i \in found : \A j \in found : i <= j]

\* The first entry of the table with the device code, or nothing.
getModelByDeviceCode(code) ==
  LET found == {i \in 1..Len(MODELS) : MODELS[i].deviceCode = code}
  IN IF found = {} THEN NoModel
     ELSE MODELS[CHOOSE i \in found : \A j \in found : i <= j]

\* The characters of a model name: a name is searched a character at a time.
Chars(name) ==
  CASE name = "PT1230" -> <<"P", "T", "1", "2", "3", "0">>
    [] name = "PT500" -> <<"P", "T", "5", "0", "0">>
    [] name = "PT-H500" -> <<"P", "T", "-", "H", "5", "0", "0">>
    [] name = "PT-E500" -> <<"P", "T", "-", "E", "5", "0", "0">>
    [] name = "PT-P700" -> <<"P", "T", "-", "P", "7", "0", "0">>
    [] name = "PT-P900W" -> <<"P", "T", "-", "P", "9", "0", "0", "W">>
    [] name = "PT-P950NW" -> <<"P", "T", "-", "P", "9", "5", "0", "N", "W">>
    [] name = "PT-P900" -> <<"P", "T", "-", "P", "9", "0", "0">>
    [] name = "PT-P910BT" -> <<"P", "T", "-", "P", "9", "1", "0", "B", "T">>
    [] OTHER -> <<>>

\* String.prototype.indexOf: the 0-based index of the first occurrence of
\* `searched` in `string`, -1 when there is none.
indexOf(string, searched) ==
  LET at == {i \in 0..Len(string) - Len(searched) :
               SubSeq(string, i + 1, i + Len(searched)) = searched}
  IN IF at = {} THEN -1 ELSE CHOOSE i \in at : \A j \in at : i <= j

\* A lookup that takes the first entry whose name is anywhere in the name
\* passed.
getModelByNameAnywhere(name) ==
  LET found == {i \in 1..Len(MODELS) : indexOf(name, Chars(MODELS[i].name)) >= 0}
  IN IF found = {} THEN NoModel
     ELSE MODELS[CHOOSE i \in found : \A j \in found : i <= j]

\* A lookup that takes the first entry whose name starts with the name
\* passed.
getModelByNameStarting(name) ==
  LET found == {i \in 1..Len(MODELS) : indexOf(Chars(MODELS[i].name), name) = 0}
  IN IF found = {} THEN NoModel
     ELSE MODELS[CHOOSE i \in found : \A j \in found : i <= j]

\* The first entry of the table whose name the name passed starts with, or
\* nothing.
getModelByName(name) ==
  LET found == {i \in 1..Len(MODELS) : indexOf(name, Chars(MODELS[i].name)) = 0}
  IN IF found = {} THEN NoModel
     ELSE MODELS[CHOOSE i \in found : \A j \in found : i <= j]

\* Models.default()
DefaultModel == MODELS[1]

\* ---------------------------------------------------------------------------
\* PTouchStatus: the status record of PTouch.js.
\* ---------------------------------------------------------------------------

PRINT_HEAD_MARK == 128

\* The fields the constructor sets, before any report is parsed; model and
\* error_information do not exist yet.
PTouchStatus_fields ==
  [eject_mm |-> Num(0), raster_px |-> Num(0), raster_mm |-> Num(0),
   printable_width_px |-> Num(0), printable_width_mm |-> Num(0),
   media_type |-> JsString("Unknown"), media_width_mm |-> Num(0),
   eject_px |-> Num(0), pixel_width_mm |-> Num(0), media_width_px |-> Num(0),
   phase |-> Undefined, status_type |-> Undefined,
   model |-> "undefined", error_information |-> Undefined]

PTouchStatus_deriveDimensions(this) ==
  LET eject_px == Floor(Plus(Over(Times(this.raster_px, this.eject_mm),
                                  this.raster_mm), Half))
      pixel_width_mm == Over(this.raster_mm, this.raster_px)
      media_width_px == Over(this.media_width_mm, pixel_width_mm)
      printable_width_px ==
        IF LessThan(media_width_px, this.printable_width_px)
        THEN Over(this.media_width_mm, pixel_width_mm)
        ELSE this.printable_width_px
  IN [this EXCEPT
        !.eject_px = eject_px,
        !.pixel_width_mm = pixel_width_mm,
        !.media_width_px = media_width_px,
        !.printable_width_px = printable_width_px,
        !.printable_width_mm = Times(printable_width_px, pixel_width_mm)]

\* Every key this has takes the value of status, undefined where status lacks
\* the key; model and error_information are keys only once they are set.
PTouchStatus_copy(this, status) ==
  PTouchStatus_deriveDimensions(
    [eject_mm |-> Field(status, "eject_mm", NumUndefined),
     raster_px |-> Field(status, "raster_px", NumUndefined),
     raster_mm |-> Field(status, "raster_mm", NumUndefined),
     printable_width_px |-> Field(status, "printable_width_px", NumUndefined),
     printable_width_mm |-> Field(status, "printable_width_mm", NumUndefined),
     media_type |-> Field(status, "media_type", JsString("undefined")),
     media_width_mm |-> Field(status, "media_width_mm", NumUndefined),
     eject_px |-> Field(status, "eject_px", NumUndefined),
     pixel_width_mm |-> Field(status, "pixel_width_mm", NumUndefined),
     media_width_px |-> Field(status, "media_width_px", NumUndefined),
     phase |-> Field(status, "phase", Undefined),
     status_type |-> Field(status, "status_type", Undefined),
     model |-> IF this.model = "undefined" THEN this.model
               ELSE Field(status, "model", "undefined"),
     error_information |-> IF this.error_information = Undefined
                           THEN this.error_information
                           ELSE Field(status, "error_information", Undefined)])

PTouchStatus_parseRaw(this, raw) ==
  LET model == getModelByDeviceCode(At(raw, 4))
      s1 == IF model.defaultStatus # NoDefaultStatus
            THEN PTouchStatus_copy(this, model.defaultStatus)
            ELSE this
      s2 == [s1 EXCEPT !.model = model.name]
      s3 == IF At(raw, 8) # 0 \/ At(raw, 9) # 0
            THEN [s2 EXCEPT !.error_information = At(raw, 8) * 256 + At(raw, 9)]
            ELSE s2
      s4 == [s3 EXCEPT !.media_type = JsNumber(At(raw, 11)),
                       !.media_width_mm = Num(At(raw, 10)),
                       !.status_type = At(raw, 18)]
  IN IF Len(raw) < 32 THEN Thrown("Bad report length")
     ELSE IF At(raw, 0) # PRINT_HEAD_MARK THEN Thrown("Bad print head mark")
     ELSE IF At(raw, 2) # 66 THEN Thrown("Bad Brother code")
     ELSE IF At(raw, 3) # 48 THEN Thrown("Bad series code")
     ELSE IF At(raw, 5) # 48 THEN Thrown("Bad country code")
     ELSE IF model = NoModel THEN Thrown("Unsupported device code")
     ELSE CASE At(raw, 19) = 0 ->
                 Returned([s4 EXCEPT !.phase = IF At(raw, 21) = 1 THEN 2 ELSE 0])
            [] At(raw, 19) = 1 ->
                 IF At(raw, 21) = 0 THEN Returned([s4 EXCEPT !.phase = 1])
                 ELSE Thrown("Unsupported printing state")
            [] OTHER -> Thrown("Unknown phase type")

\* new PTouchStatus(raw)
PTouchStatus_constructor(raw) ==
  LET parsed == PTouchStatus_parseRaw(PTouchStatus_fields, raw)
  IN IF parsed.ok THEN Returned(PTouchStatus_deriveDimensions(parsed.value))
     ELSE parsed

\* PTouchStatus.from(status); an undefined status is NoDefaultStatus.
PTouchStatus_from(status) ==
  IF status # NoDefaultStatus THEN PTouchStatus_copy(PTouchStatus_fields, status)
  ELSE PTouchStatus_fields

\* ---------------------------------------------------------------------------
\* PrinterStatus: the status record of PrinterStatus.js, with its own table.
\* ---------------------------------------------------------------------------

PrinterStatus_MODELS ==
  << [name |-> "PT1230", deviceCode |-> 89,
      defaultStatus |->
        [eject_mm |-> Num(20), raster_px |-> Num(128), raster_mm |-> Num(18),
         printable_width_px |-> Num(64), printable_width_mm |-> Num(9),
         media_type |-> JsString("Laminated"), media_width_mm |-> Num(12)]],
     [deviceCode |-> 74, name |-> "PT500", defaultStatus |-> NoDefaultStatus],
     [deviceCode |-> 100, name |-> "PT-H500", defaultStatus |-> NoDefaultStatus],
     [deviceCode |-> 101, name |-> "PT-E500", defaultStatus |-> NoDefaultStatus],
     [deviceCode |-> 103, name |-> "PT-P700", defaultStatus |-> NoDefaultStatus],
     [deviceCode |-> 105, name |-> "PT-P900W", defaultStatus |-> NoDefaultStatus],
     [deviceCode |-> 112, name |-> "PT-P950NW", defaultStatus |-> NoDefaultStatus],
     [deviceCode |-> 113, name |-> "PT-P900", defaultStatus |-> NoDefaultStatus],
     [deviceCode |-> 120, name |-> "PT-P910BT", defaultStatus |-> NoDefaultStatus] >>

PrinterStatus_getModelByDeviceCode(code) ==
  LET found == {i \in 1..Len(PrinterStatus_MODELS) :
                  PrinterStatus_MODELS[i].deviceCode = code}
  IN IF found = {} THEN NoModel
     ELSE PrinterStatus_MODELS[CHOOSE i \in found : \A j \in found : i <= j]

PrinterStatus_getModelByName(name) ==
  LET found == {i \in 1..Len(PrinterStatus_MODELS) :
                  indexOf(name, Chars(PrinterStatus_MODELS[i].name)) = 0}
  IN IF found = {} THEN NoModel
     ELSE PrinterStatus_MODELS[CHOOSE i \in found : \A j \in found : i <= j]

\* The fields the constructor sets; the fields that only parseRaw or copy
\* create are here from the start, holding undefined (FALSE for the two
\* flags that are only ever set to true).
PrinterStatus_fields ==
  [eject_mm |-> Num(0), eject_px |-> Num(0), raster_px |-> Num(0),
   raster_mm |-> Num(0), pixel_width_mm |-> Num(0),
   printable_width_px |-> Num(0), printable_width_mm |-> Num(0),
   media_width_px |-> Num(0), phase |-> "Initialisation",
   model |-> "undefined", error_information |-> Undefined,
   media_type |-> JsString("undefined"), media_width_mm |-> NumUndefined,
   number_of_colours |-> Undefined, fonts |-> Undefined,
   japanese_fonts |-> Undefined, mirror_printing |-> FALSE,
   auto_cut |-> FALSE, density |-> Undefined, media_length |-> Undefined,
   status_type |-> "undefined", cover |-> "undefined",
   Expansion_area |-> Undefined, Tape_color_information |-> Undefined,
   Text_color_information |-> Undefined, Hardware_settings_0 |-> Undefined,
   Hardware_settings_1 |-> Undefined, Hardware_settings_2 |-> Undefined,
   Hardware_settings_3 |-> Undefined]

PrinterStatus_deriveDimensions(this) ==
  LET eject_px == Floor(Plus(Over(Times(this.raster_px, this.eject_mm),
                                  this.raster_mm), Half))
      pixel_width_mm == Over(this.raster_mm, this.raster_px)
      media_width_px == Over(this.media_width_mm, pixel_width_mm)
      printable_width_px ==
        IF LessThan(media_width_px, this.printable_width_px)
        THEN Over(this.media_width_mm, pixel_width_mm)
        ELSE this.printable_width_px
  IN [this EXCEPT
        !.eject_px = eject_px,
        !.pixel_width_mm = pixel_width_mm,
        !.media_width_px = media_width_px,
        !.printable_width_px = printable_width_px,
        !.printable_width_mm = Times(printable_width_px, pixel_width_mm)]

\* Every key of status overwrites the field of this.
PrinterStatus_copy(this, status) ==
  [key \in DOMAIN this |->
     IF key \in DOMAIN status THEN status[key] ELSE this[key]]

\* The value a byte gives a field that is set only when the byte is not 0.
IfNotZero(byte, old) == IF byte # 0 THEN byte ELSE old

PrinterStatus_parseRaw(this, raw) ==
  LET model == PrinterStatus_getModelByDeviceCode(At(raw, 4))
      s1 == [this EXCEPT !.model = model.name]
      s2 == IF model.defaultStatus # NoDefaultStatus
            THEN PrinterStatus_copy(s1, model.defaultStatus)
            ELSE s1
      s3 == IF At(raw, 8) # 0 \/ At(raw, 9) # 0
            THEN [s2 EXCEPT !.error_information = At(raw, 8) * 256 + At(raw, 9)]
            ELSE s2
      media_type ==
        CASE At(raw, 11) = 1 -> "Laminated"
          [] At(raw, 11) = 2 -> "Lettering"
          [] At(raw, 11) = 3 -> "Non-laminated"
          [] At(raw, 11) = 4 -> "Fabric"
          [] At(raw, 11) = 8 -> "AV"
          [] At(raw, 11) = 9 -> "HG"
          [] At(raw, 11) = 17 -> "Heat shrink 2:1"
          [] At(raw, 11) = 19 -> "Fle"
          [] At(raw, 11) = 20 -> "Flexible ID"
          [] At(raw, 11) = 21 -> "Satin"
          [] At(raw, 11) = 23 -> "Heat shrink 3:1"
          [] At(raw, 11) = 255 -> "Incompatible tape"
          [] OTHER -> "Unknown"
      s4 == [s3 EXCEPT
               !.media_type = JsString(media_type),
               !.media_width_mm = Num(At(raw, 10)),
               !.number_of_colours = IfNotZero(At(raw, 12), @),
               !.fonts = IfNotZero(At(raw, 13), @),
               !.japanese_fonts = IfNotZero(At(raw, 14), @),
               !.mirror_printing = (At(raw, 15) # 0) \/ @,
               !.auto_cut = (At(raw, 15) # 0) \/ @,
               !.density = IfNotZero(At(raw, 16), @),
               !.media_length = IfNotZero(At(raw, 17), @),
               !.status_type = CASE At(raw, 18) = 1 -> "Printing complete"
                                 [] At(raw, 18) = 2 -> "Error occurred"
                                 [] At(raw, 18) = 6 -> "Phase change"
                                 [] OTHER -> @,
               !.phase = CASE At(raw, 19) = 0 ->
                                IF At(raw, 21) = 1 THEN "Feeding" ELSE "Receiving"
                           [] At(raw, 19) = 1 -> "Printing"
                           [] OTHER -> @,
               !.cover = CASE At(raw, 22) = 1 -> "Opened"
                           [] At(raw, 22) = 2 -> "Closed"
                           [] OTHER -> @,
               !.Expansion_area = IfNotZero(At(raw, 23), @),
               !.Tape_color_information = IfNotZero(At(raw, 24), @),
               !.Text_color_information = IfNotZero(At(raw, 25), @),
               !.Hardware_settings_0 = IfNotZero(At(raw, 26), @),
               !.Hardware_settings_1 = IfNotZero(At(raw, 27), @),
               !.Hardware_settings_2 = IfNotZero(At(raw, 28), @),
               !.Hardware_settings_3 = IfNotZero(At(raw, 29), @)]
  IN IF Len(raw) < 32 THEN Thrown("Bad report length")
     ELSE IF At(raw, 0) # 128 THEN Thrown("Bad print head mark")
     ELSE IF At(raw, 2) # 66 THEN Thrown("Bad Brother code")
     ELSE IF At(raw, 3) # 48 THEN Thrown("Bad series code")
     ELSE IF At(raw, 5) # 48 THEN Thrown("Bad country code")
     ELSE IF model = NoModel THEN Thrown("Unsupported device code")
     ELSE Returned(s4)

\* new PrinterStatus(raw)
PrinterStatus_constructor(raw) ==
  LET parsed == PrinterStatus_parseRaw(PrinterStatus_fields, raw)
  IN IF parsed.ok THEN Returned(PrinterStatus_deriveDimensions(parsed.value))
     ELSE parsed

\* PrinterStatus.from(status); an undefined status is NoDefaultStatus.
PrinterStatus_from(status) ==
  IF status # NoDefaultStatus
  THEN PrinterStatus_deriveDimensions(
         PrinterStatus_copy(PrinterStatus_fields, status))
  ELSE PrinterStatus_fields

\* ---------------------------------------------------------------------------
\* PTouch.printImage: the raster encoder.
\* ---------------------------------------------------------------------------

PRINT_NOFEED == 12

RASTER_DATA == 71

EMPTY_RASTER == 90

\* A pixel read from its red byte.
isBlackRed(image, width, x, y) ==
  x[2] = 1 /\ At(image, (y * width + x[1]) * 4) > 0

\* image[offset + 3] > 0 for the pixel x, y of an image width pixels wide;
\* x is a fraction once the tape runs are a fraction of a pixel wide, and the
\* buffer has nothing at an index that is not a whole number.
isBlack(image, width, x, y) ==
  x[2] = 1 /\ At(image, (y * width + x[1]) * 4 + 3) > 0

\* How often a loop for (x = 0; x < limit; x++) runs.
Iterations(limit) == IF LessThan(Num(0), limit) THEN Ceil(limit)[1] ELSE 0

\* const padding = (raster_px - printable_width_px) / 2
Padding(status) ==
  Over(Minus(status.raster_px, status.printable_width_px), Num(2))

\* const byte_count = (padding + printable_width_px) / 8
ByteCount(status) ==
  Over(Plus(Padding(status), status.printable_width_px), Num(8))

\* The length of new Uint8Array(byte_count): the whole part, 0 for NaN.
RasterLength(status) ==
  IF IsFinite(ByteCount(status)) THEN Floor(ByteCount(status))[1] ELSE 0

\* Tape runs that are all as wide as the printable area.
RECURSIVE TapeRunsFullWidth(_, _, _)
TapeRunsFullWidth(printable_width_px, width, offset) ==
  IF ~LessThan(offset, Num(width)) THEN <<>>
  ELSE <<[offset |-> offset, printwidth |-> printable_width_px]>>
       \o TapeRunsFullWidth(printable_width_px, width,
                            Plus(offset, printable_width_px))

\* The tape runs of the while loop: where each starts and how wide it is.
RECURSIVE TapeRuns(_, _, _)
TapeRuns(printable_width_px, width, offset) ==
  IF ~LessThan(offset, Num(width)) THEN <<>>
  ELSE LET printwidth ==
             IF LessThan(Num(width), Plus(offset, printable_width_px))
             THEN Minus(Num(width), offset)
             ELSE printable_width_px
       IN <<[offset |-> offset, printwidth |-> printwidth]>>
          \o TapeRuns(printable_width_px, width, Plus(offset, printwidth))

\* Byte b of the raster of row y: the leading bits pad, then one bit per
\* pixel of the run, filled from the most significant bit.
RasterByte(image, width, run, y, leading, b) ==
  LET pixel(k) == 8 * b + k - leading
      mark(k) ==
        IF /\ pixel(k) >= 0
           /\ pixel(k) < Iterations(run.printwidth)
           /\ isBlack(image, width, Plus(run.offset, Num(pixel(k))), y)
        THEN 2 ^ (7 - k) ELSE 0
  IN mark(0) + mark(1) + mark(2) + mark(3) + mark(4) + mark(5) + mark(6) + mark(7)

\* What one row of a tape run pushes on the print buffer; declared is the
\* length the two length bytes stand for.
RasterRow(status, image, width, run, y, declared) ==
  IF \A x \in 0..(Iterations(run.printwidth) - 1) :
       ~isBlack(image, width, Plus(run.offset, Num(x)), y)
  THEN <<EMPTY_RASTER>>
  ELSE <<RASTER_DATA, declared % 256, declared \div 256>>
       \o [b \in 1..RasterLength(status) |->
             RasterByte(image, width, run, y,
                        Iterations(Padding(status)), b - 1)]

\* A tape run with its rows from the first to the last.
RunCommandsTopDown(status, image, width, height, run, declared) ==
  Flatten([k \in 1..height |->
             RasterRow(status, image, width, run, k - 1, declared)])
  \o <<PRINT_NOFEED>>

\* What one tape run pushes: its rows from the last to the first, no label
\* gap (no status has label_gap_px), then PRINT_NOFEED.
RunCommands(status, image, width, height, run, declared) ==
  Flatten([k \in 1..height |->
             RasterRow(status, image, width, run, height - k, declared)])
  \o <<PRINT_NOFEED>>

PrintBuffer(status, image, width, height, declared) ==
  LET runs == TapeRuns(status.printable_width_px, width, Num(0))
  IN Flatten([r \in 1..Len(runs) |->
                RunCommands(status, image, width, height, runs[r], declared)])

\* printImage once the driver is initialised.  The loop does not end when
\* the printable width is 0 or less.  The length bytes pushed are byte_count % 256 and
\* floor(byte_count / 256): when byte_count is a fraction, fromBinary (the
\* debug log) counts it down through ceil(byte_count) bytes, and the write
\* stores its whole part.  Nothing is written when fromBinary throws.
printImage(status, image, width, height) ==
  LET pw == status.printable_width_px
      runs == TapeRuns(pw, width, Num(0))
      logged == PrintBuffer(status, image, width, height,
                            Ceil(ByteCount(status))[1])
  IN IF width > 0 /\ AtMost(pw, Num(0))
     THEN [outcome |-> "hang", written |-> <<>>, runs |-> <<>>]
     ELSE IF ~fromBinary(logged).ok
     THEN [outcome |-> "thrown", written |-> <<>>, runs |-> runs]
     ELSE [outcome |-> "written",
           written |-> PrintBuffer(status, image, width, height,
                                   Floor(ByteCount(status))[1]),
           runs |-> runs]

\* ---------------------------------------------------------------------------
\* PTouch: the driver.
\* ---------------------------------------------------------------------------

SEND_STATUS == <<27, 105, 83>>

\* The bytes reset() writes: a Uint8Array(200) filled with INVALIDATE whose
\* last element is assigned the array INITIALISE_CLEAR.  An array of two
\* numbers is NaN as a number, and NaN is stored as 0.
ResetBytes ==
  LET INVALIDATE == 0
      INITIALISE_CLEAR == <<27, 64>>
      stored == IF Len(INITIALISE_CLEAR) = 1 THEN INITIALISE_CLEAR[1] ELSE NaN
  IN [k \in 1..200 |-> IF k = 200 THEN ToUint8(stored) ELSE INVALIDATE]

\* The bytes the listener of initialise() writes: COMPRESSION 0 (uncompressed)
\* and SET_TRANSFER_MODE 1 (raster).
StartBytes == <<77, 0, 27, 105, 82, 1>>

\* The bytes initialise() of src/unnamed/part_003 writes once the device is
\* open: 200 times INVALIDATE, the array INITIALISE_CLEAR as one element of
\* the array written (NaN as a number, 0 as a byte), COMPRESSION 0,
\* SET_TRANSFER_MODE 1 and FEED_AMOUNT 64 0.
ResetAndStartBytes ==
  LET INITIALISE_CLEAR == <<27, 64>>
      stored == IF Len(INITIALISE_CLEAR) = 1 THEN INITIALISE_CLEAR[1] ELSE NaN
  IN [k \in 1..200 |-> 0] \o <<ToUint8(stored)>> \o StartBytes
     \o <<27, 105, 100, 64, 0>>

\* this.status of a new driver: PrinterStatus.from in src/server/src/PTouch.js,
\* PTouchStatus.from in src/unnamed/part_003.
FirstStatus(file, model) ==
  IF file = "PTouch.js"
  THEN [PrinterStatus_from(model.defaultStatus) EXCEPT !.model = model.name]
  ELSE [PTouchStatus_from(model.defaultStatus) EXCEPT !.model = model.name]

\* The status the poll loop makes of a block of 32 bytes.
NewStatus(file, statusBlock) ==
  IF file = "PTouch.js" THEN PrinterStatus_constructor(statusBlock)
  ELSE PTouchStatus_constructor(statusBlock)

\* A callback that begins with an empty accumulator: what an earlier read
\* left of a block is dropped.
PollStartEmpty(statusBlock, status, events) ==
  [statusBlock |-> <<>>, status |-> status, events |-> events,
   thrown |-> FALSE]

\* What the callback of a read begins with: this.statusBlock and
\* this.status as the callbacks before left them, and the notifications
\* raised so far.
PollStart(statusBlock, status, events) ==
  [statusBlock |-> statusBlock, status |-> status, events |-> events,
   thrown |-> FALSE]

\* The 32nd byte of a block with the emit before the assignment: the
\* listeners run while this.status is still the status before.
AnnounceBefore(acc, made, failing) ==
  [statusBlock |-> <<>>, status |-> made,
   events |-> Append(acc.events, [state |-> made, status |-> acc.status]),
   thrown |-> failing]

\* The 32nd byte of a block with the report merged into this.status: the
\* error bits of the status before stay when the report has none.
AnnounceMerged(acc, made, failing) ==
  LET merged == [made EXCEPT !.error_information =
                   IF @ = Undefined THEN acc.status.error_information ELSE @]
  IN [statusBlock |-> <<>>, status |-> merged,
      events |-> Append(acc.events, [state |-> merged, status |-> merged]),
      thrown |-> failing]

\* The 32nd byte of a block whose status has been made: this.status = the
\* new status; this.statusBlock = []; this.emit(event, this.status).  An
\* event is recorded with the status passed to the listeners (state) and
\* this.status as the listeners find it (status).
Announce(acc, made, failing) ==
  [statusBlock |-> <<>>, status |-> made,
   events |-> Append(acc.events, [state |-> made, status |-> made]),
   thrown |-> failing]

\* The while loop of pollStatus over the bytes of one read, from byte k on,
\* a block at a time.  A block starts at a byte that is not 0 (PTouch.js) or
\* that is PRINT_HEAD_MARK (part_003); its 32nd byte makes a status of it,
\* which becomes this.status and is then announced to the listeners.  The
\* loop is left when the constructor throws, with the 32 bytes still in
\* this.statusBlock, and when the listener of initialise() throws (failing:
\* it writes to a device that has been closed).  A block that holds 32
\* bytes or more takes every byte: its length is not 32 after a push.
RECURSIVE pollBytes(_, _, _, _, _)
pollBytes(file, bytes, k, acc, failing) ==
  LET last == k + 31 - Len(acc.statusBlock)
      Started(starts) ==
        IF starts = {} THEN acc
        ELSE LET start == CHOOSE j \in starts : \A other \in starts : j <= other
             IN pollBytes(file, bytes, start + 1,
                          [acc EXCEPT !.statusBlock = <<bytes[start]>>], failing)
      Announced(made) == Announce(acc, made.value, failing)
      Filled(made) ==
        IF ~made.ok
        THEN [acc EXCEPT !.statusBlock = @ \o SubSeq(bytes, k, last),
                         !.thrown = TRUE]
        ELSE IF failing THEN Announced(made)
        ELSE pollBytes(file, bytes, last + 1, Announced(made), failing)
  IN IF k > Len(bytes) THEN acc
     ELSE IF Len(acc.statusBlock) >= 32
     THEN [acc EXCEPT !.statusBlock = @ \o SubSeq(bytes, k, Len(bytes))]
     ELSE IF Len(acc.statusBlock) = 0
     THEN Started({j \in k..Len(bytes) :
                     IF file = "PTouch.js" THEN bytes[j] # 0
                     ELSE bytes[j] = PRINT_HEAD_MARK})
     ELSE IF last > Len(bytes)
     THEN [acc EXCEPT !.statusBlock = @ \o SubSeq(bytes, k, Len(bytes))]
     ELSE Filled(NewStatus(file, acc.statusBlock \o SubSeq(bytes, k, last)))

\* The bytes eject() makes: Buffer.alloc(eject_px + 1, EMPTY_RASTER) with
\* PRINT_NOFEED in its last byte.  Buffer.alloc throws when the size is not
\* a number.
EjectBuffer(status) ==
  LET size == Plus(status.eject_px, Num(1))
  IN IF ~IsFinite(size) \/ LessThan(size, Num(0)) THEN Thrown("RangeError")
     ELSE Returned([k \in 1..Floor(size)[1] |->
                      IF k = Floor(size)[1] THEN PRINT_NOFEED
                      ELSE EMPTY_RASTER])

(***************************************************************************)
(* The parts of the state a specification does not use stay as they are    *)
(* here.                                                                   *)
(***************************************************************************)

CodecIdle ==
  /\ c_dir = "none" /\ c_pc = "start" /\ c_in = <<>>
  /\ c_mid = NoResult /\ c_back = NoResult

StatusIdle ==
  /\ s_kind = "none" /\ s_raw = <<>> /\ s_template = NoDefaultStatus
  /\ s_new = NoResult /\ s_old = NoResult

ModelsIdle == m_lookup = [by |-> "none"] /\ m_found = NoResult

AcquireIdle ==
  /\ a_write_only = FALSE
  /\ a_status = NoDefaultStatus
  /\ a_initialised = FALSE
  /\ a_pc = "none"
  /\ a_replies = <<>>
  /\ a_written = <<>>
  /\ a_attempts = 0

NoPrint == [outcome |-> "not run", written |-> <<>>, runs |-> <<>>]

ImageIdle ==
  /\ i_status = NoDefaultStatus /\ i_image = <<>> /\ i_width = 0
  /\ i_height = 0 /\ i_result = NoPrint

\* A call the client has not made.
NoCall == [pc |-> "none"]

DriverIdle ==
  /\ d_write_only = FALSE /\ d_status = NoDefaultStatus /\ d_fd = "undefined"
  /\ d_initialised = FALSE /\ d_statusBlock = <<>> /\ d_listening = FALSE
  /\ d_init = "none" /\ d_inits = <<>> /\ d_reads = 0 /\ d_timers = 0
  /\ d_print = "none" /\ d_image = <<>> /\ d_device = <<>> /\ d_written = <<>>
  /\ d_file = "none" /\ d_events = <<>> /\ d_eject = NoCall /\ d_await = NoCall

(***************************************************************************)
(* The codec under test: a list of text commands is encoded and decoded    *)
(* back (test/Readable.js), or a byte buffer is decoded and encoded back.  *)
(***************************************************************************)

MaxCmds == 2

MaxPayload == 1

ByteSamples == {0, 255}

FeedSamples == {0, 256, 65535}

PayloadSamples == SeqsUpTo(MaxPayload, {0, 171})

HexOf(payload) == [k \in 1..(2 * Len(payload)) |-> HexStr(payload[(k + 1) \div 2])[2 - (k % 2)]]

\* Text commands in the form fromBinary writes them.
TextPool ==
  {<<"Invalidate">>, <<"Initialise_clear">>, <<"Status">>, <<"Empty_raster">>,
   <<"Print", " ", "0">>, <<"Print", " ", "1">>}
  \cup {<<"Raster_mode", " ">> \o ToDecimal(m) : m \in ByteSamples}
  \cup {<<"Compress", " ">> \o ToDecimal(m) : m \in ByteSamples}
  \cup {<<"Feed", " ">> \o ToDecimal(n) : n \in FeedSamples}
  \cup {<<"Raster", " ">> \o HexOf(p) : p \in PayloadSamples}

\* Commands whose argument does not fit the wire format.
WidePool ==
  {<<"Compress", " ">> \o ToDecimal(256), <<"Raster_mode", " ">> \o ToDecimal(257)}

TextInputs == SeqsUpTo(MaxCmds, TextPool \cup WidePool)

\* Complete commands of the opcode grammar.
WirePool ==
  {<<0>>, <<27, 64>>, <<27, 105, 83>>, <<26>>, <<12>>, <<90>>}
  \cup {<<27, 105, 82, m>> : m \in ByteSamples}
  \cup {<<77, m>> : m \in ByteSamples}
  \cup {<<27, 105, 100, n % 256, n \div 256>> : n \in FeedSamples}
  \cup {<<71, Len(p), 0>> \o p : p \in PayloadSamples}

\* Fragments: unknown opcodes, wrong escape sequences, cut commands.
FragmentPool ==
  {<<1>>, <<27>>, <<27, 1>>, <<27, 105>>, <<27, 105, 1>>,
   <<27, 105, 82>>, <<27, 105, 100>>, <<27, 105, 100, 5>>, <<77>>,
   <<71>>, <<71, 1>>, <<71, 2, 0>>, <<71, 2, 0, 171>>}

\* Command streams: complete commands one after the other.
ByteInputs == {Flatten(cs) : cs \in SeqsUpTo(MaxCmds, WirePool)}

\* Any bytes: complete commands and fragments one after the other.
RawInputs == {Flatten(cs) : cs \in SeqsUpTo(MaxCmds, WirePool \cup FragmentPool)}

CodecInit ==
  /\ c_pc = "start"
  /\ c_mid = NoResult
  /\ c_back = NoResult
  /\ \/ c_dir = "text" /\ c_in \in TextInputs
     \/ c_dir = "bytes" /\ c_in \in ByteInputs
     \/ c_dir = "raw" /\ c_in \in RawInputs
  /\ StatusIdle
  /\ ImageIdle
  /\ DriverIdle
  /\ ModelsIdle
  /\ AcquireIdle

\* const buffer = toBinary(commands)
EncodeInput ==
  /\ c_dir = "text" /\ c_pc = "start"
  /\ c_mid' = toBinary(c_in)
  /\ c_pc' = "mid"
  /\ UNCHANGED <<c_dir, c_in, c_back>>
  /\ UNCHANGED notCodecVars

\* const back = fromBinary(buffer)
DecodeBack ==
  /\ c_dir = "text" /\ c_pc = "mid" /\ c_mid.ok
  /\ c_back' = fromBinary(c_mid.value)
  /\ c_pc' = "done"
  /\ UNCHANGED <<c_dir, c_in, c_mid>>
  /\ UNCHANGED notCodecVars

\* fromBinary(data)
DecodeInput ==
  /\ c_dir \in {"bytes", "raw"} /\ c_pc = "start"
  /\ c_mid' = fromBinary(c_in)
  /\ c_pc' = "mid"
  /\ UNCHANGED <<c_dir, c_in, c_back>>
  /\ UNCHANGED notCodecVars

\* toBinary(text)
EncodeBack ==
  /\ c_dir = "bytes" /\ c_pc = "mid" /\ c_mid.ok
  /\ c_back' = toBinary(c_mid.value)
  /\ c_pc' = "done"
  /\ UNCHANGED <<c_dir, c_in, c_mid>>
  /\ UNCHANGED notCodecVars

CodecNext == EncodeInput \/ DecodeBack \/ DecodeInput \/ EncodeBack

SpecCodec == CodecInit /\ [][CodecNext]_vars

(***************************************************************************)
(* The status codec under test: a raw report goes through the constructor  *)
(* of each status class, or a default status block goes through from().    *)
(***************************************************************************)

\* A 32-byte status report: the head mark, the Brother, series and country
\* codes, and the bytes that are read; fill is every other byte.
Report(code, width, type, phaseType, phaseNumber, fill) ==
  [k \in 1..32 |->
     CASE k - 1 = 0 -> 128
       [] k - 1 = 2 -> 66
       [] k - 1 = 3 -> 48
       [] k - 1 = 4 -> code
       [] k - 1 = 5 -> 48
       [] k - 1 = 10 -> width
       [] k - 1 = 18 -> type
       [] k - 1 = 19 -> phaseType
       [] k - 1 = 21 -> phaseNumber
       [] OTHER -> fill]

KnownDeviceCodes == {MODELS[i].deviceCode : i \in 1..Len(MODELS)}

DeviceCodeSamples == KnownDeviceCodes \cup {0, 90}

MediaWidthSamples == {0, 6, 9, 12, 36}

HeadedReports ==
  {Report(code, width, type, phaseType, phaseNumber, fill) :
     code \in DeviceCodeSamples, width \in MediaWidthSamples,
     type \in {0, 1, 2, 6}, phaseType \in {0, 1, 2}, phaseNumber \in {0, 1, 20},
     fill \in {0, 255}}

\* Reports that are cut short, that carry one wrong code, or that are longer
\* than a block.
DamagedReports ==
  LET r == Report(89, 12, 0, 0, 0, 0)
  IN {SubSeq(r, 1, n) : n \in {0, 1, 31}}
     \cup {[r EXCEPT ![k] = b] : k \in {1, 3, 4, 6}, b \in {0, 255}}
     \cup {r \o <<0>>}

TemplateSamples ==
  {MODELS[i].defaultStatus : i \in 1..Len(MODELS)}
  \cup {PrinterStatus_MODELS[i].defaultStatus : i \in 1..Len(PrinterStatus_MODELS)}

StatusInit ==
  /\ s_new = NoResult
  /\ s_old = NoResult
  /\ \/ s_kind = "report" /\ s_raw \in HeadedReports \cup DamagedReports
        /\ s_template = NoDefaultStatus
     \/ s_kind = "template" /\ s_raw = <<>> /\ s_template \in TemplateSamples
  /\ CodecIdle
  /\ ImageIdle
  /\ DriverIdle
  /\ ModelsIdle
  /\ AcquireIdle

\* new PTouchStatus(raw)
NewPTouchStatus ==
  /\ s_kind = "report" /\ s_new = NoResult
  /\ s_new' = PTouchStatus_constructor(s_raw)
  /\ UNCHANGED <<s_kind, s_raw, s_template, s_old>>
  /\ UNCHANGED notStatusVars

\* new PrinterStatus(raw)
NewPrinterStatus ==
  /\ s_kind = "report" /\ s_old = NoResult
  /\ s_old' = PrinterStatus_constructor(s_raw)
  /\ UNCHANGED <<s_kind, s_raw, s_template, s_new>>
  /\ UNCHANGED notStatusVars

\* PTouchStatus.from(defaultStatus)
PTouchStatusFrom ==
  /\ s_kind = "template" /\ s_new = NoResult
  /\ s_new' = Returned(PTouchStatus_from(s_template))
  /\ UNCHANGED <<s_kind, s_raw, s_template, s_old>>
  /\ UNCHANGED notStatusVars

\* PrinterStatus.from(defaultStatus)
PrinterStatusFrom ==
  /\ s_kind = "template" /\ s_old = NoResult
  /\ s_old' = Returned(PrinterStatus_from(s_template))
  /\ UNCHANGED <<s_kind, s_raw, s_template, s_new>>
  /\ UNCHANGED notStatusVars

StatusNext ==
  NewPTouchStatus \/ NewPrinterStatus \/ PTouchStatusFrom \/ PrinterStatusFrom

SpecStatus == StatusInit /\ [][StatusNext]_vars

(***************************************************************************)
(* The model table under test: a model is looked up by name or by device   *)
(* code in the table of Models (src/unnamed/part_001) or in the table of   *)
(* src/server/src/PrinterStatus.js, or the default model is asked for.     *)
(***************************************************************************)

ModelNames == {Chars(MODELS[i].name) : i \in 1..Len(MODELS)}

\* Names passed to the lookup: the names of the table, as they are, with
\* letters after them, with a letter before them and cut short by one, the
\* empty name and a name in small letters.
NameSamples ==
  {n \o after : n \in ModelNames,
               after \in {<<>>, <<"P", "C">>, <<"F">>, <<"W">>}}
  \cup {<<"X">> \o n : n \in ModelNames}
  \cup {SubSeq(n, 1, Len(n) - 1) : n \in ModelNames}
  \cup {<<>>, <<"p", "t", "1", "2", "3", "0">>}

\* Device codes passed to the lookup: every byte, and undefined.
CodeSamples == 0..255 \cup {Undefined}

ModelsInit ==
  /\ m_found = NoResult
  /\ \/ m_lookup \in [by : {"name"}, arg : NameSamples,
                       file : {"part_001", "PrinterStatus.js"}]
     \/ m_lookup \in [by : {"code"}, arg : CodeSamples,
                       file : {"part_001", "PrinterStatus.js"}]
     \/ m_lookup = [by |-> "default", arg |-> <<>>, file |-> "part_001"]
  /\ CodecIdle
  /\ StatusIdle
  /\ ImageIdle
  /\ DriverIdle
  /\ AcquireIdle

\* Models.getModelByName(name), PrinterStatus.getModelByName(name)
LookupByName ==
  /\ m_lookup.by = "name" /\ m_found = NoResult
  /\ m_found' = Returned(IF m_lookup.file = "part_001"
                         THEN getModelByName(m_lookup.arg)
                         ELSE PrinterStatus_getModelByName(m_lookup.arg))
  /\ UNCHANGED m_lookup
  /\ UNCHANGED notModelsVars

\* Models.getModelByDeviceCode(code),
\* PrinterStatus.getModelByDeviceCode(code)
LookupByDeviceCode ==
  /\ m_lookup.by = "code" /\ m_found = NoResult
  /\ m_found' = Returned(IF m_lookup.file = "part_001"
                         THEN getModelByDeviceCode(m_lookup.arg)
                         ELSE PrinterStatus_getModelByDeviceCode(m_lookup.arg))
  /\ UNCHANGED m_lookup
  /\ UNCHANGED notModelsVars

\* Models.default()
LookupDefault ==
  /\ m_lookup.by = "default" /\ m_found = NoResult
  /\ m_found' = Returned(DefaultModel)
  /\ UNCHANGED m_lookup
  /\ UNCHANGED notModelsVars

ModelsNext == LookupByName \/ LookupByDeviceCode \/ LookupDefault

SpecModels == ModelsInit /\ [][ModelsNext]_vars

(***************************************************************************)
(* The raster encoder under test: printImage on a driver that is           *)
(* initialised, for the statuses a driver can hold.                        *)
(***************************************************************************)

MaxHeight == 2

ImageWidths == {0, 1, 8, 43, 50, 64, 65, 160}

\* An RGBA image: every colour byte is rgb, the alpha byte of a pixel is 0
\* unless the pattern marks the pixel.
Image(width, height, rgb, pattern) ==
  [i \in 1..(4 * width * height) |->
     LET x == ((i - 1) \div 4) % width
         y == ((i - 1) \div 4) \div width
     IN IF i % 4 # 0 THEN rgb
        ELSE CASE pattern = "all" -> 255
               [] pattern = "first" /\ x = 0 /\ y = 0 -> 1
               [] pattern = "last" /\ x = width - 1 /\ y = height - 1 -> 255
               [] OTHER -> 0]

\* The statuses: built from the default status block of each model, and
\* parsed from the report of a PT1230, a PT500 or a PT-P900 with tapes of
\* several widths.
StatusSamples ==
  {PrinterStatus_from(MODELS[i].defaultStatus) : i \in 1..Len(MODELS)}
  \cup {PTouchStatus_from(MODELS[i].defaultStatus) : i \in 1..Len(MODELS)}
  \cup {PrinterStatus_constructor(Report(code, mm, 0, 0, 0, 0)).value :
          code \in {89, 74}, mm \in MediaWidthSamples}
  \cup {PTouchStatus_constructor(Report(code, mm, 0, 0, 0, 0)).value :
          code \in {89, 113}, mm \in MediaWidthSamples}

ImageInit ==
  /\ i_status \in StatusSamples
  /\ i_width \in ImageWidths
  /\ i_height \in 0..MaxHeight
  /\ \E rgb \in {0, 255}, pattern \in {"none", "all", "first", "last"} :
       i_image = Image(i_width, i_height, rgb, pattern)
  /\ i_result = NoPrint
  /\ CodecIdle
  /\ StatusIdle
  /\ DriverIdle
  /\ ModelsIdle
  /\ AcquireIdle

\* dev.printImage(image, width, height)
PrintImage ==
  /\ i_result = NoPrint
  /\ i_status # NoDefaultStatus
  /\ i_result' = printImage(i_status, i_image, i_width, i_height)
  /\ UNCHANGED <<i_status, i_image, i_width, i_height>>
  /\ UNCHANGED notImageVars

ImageNext == PrintImage

SpecImage == ImageInit /\ [][ImageNext]_vars

(***************************************************************************)
(* The driver: a client calls initialise(), printImage(), eject(),         *)
(* awaitPrinted() and close() on a driver whose device is a file that is   *)
(* only written or a printer that answers.  The driver is the one of       *)
(* src/server/src/PTouch.js or the one of src/unnamed/part_003.  Each      *)
(* callback of a promise chain is one step.  One initialise() chain is     *)
(* under way at a time; one image is printed, eject() is called once and   *)
(* awaitPrinted() once, after printImage().                                *)
(***************************************************************************)

MaxInits == 2

\* What the printer sends over the life of the driver: nothing; a report
\* and then the report of a print that is complete; after two zero bytes
\* the report of a model whose table entry in PrinterStatus.js has no
\* dimensions; after a stray byte a report with a device code that is in no
\* table, and then a report; and a report that is cut short.
DeviceStreams ==
  LET r == Report(89, 12, 0, 0, 0, 0)
  IN {<<>>, r \o Report(89, 12, 1, 0, 0, 0),
      <<0, 0>> \o Report(74, 12, 0, 0, 0, 0),
      <<255>> \o Report(90, 12, 0, 0, 0, 0) \o r,
      SubSeq(r, 1, 20)}

\* How many bytes a read returns: none, ReadSize of them, or all there are.
ReadSize == 40

DriverImages ==
  {[image |-> Image(8, 1, 0, "first"), width |-> 8, height |-> 1],
   [image |-> Image(65, 1, 0, "all"), width |-> 65, height |-> 1]}

\* The counts a caller passes to eject().
EjectCounts == {0, 142}

\* Reports that differ in every field a status takes from a report: an
\* error report of a PT1230 with 6 mm tape that is feeding, with error bits;
\* a plain reply with 12 mm tape; the phase change of a PT-P900 that prints.
ReportSamples ==
  <<Report(89, 6, 2, 0, 1, 255), Report(89, 12, 0, 0, 0, 0),
    Report(113, 36, 6, 1, 0, 0)>>

\* What the printer sends when it sends whole reports only: two or three of
\* the samples, one after the other.
ReportSequences ==
  {ReportSamples[1] \o ReportSamples[2],
   ReportSamples[2] \o ReportSamples[1],
   ReportSamples[1] \o ReportSamples[3] \o ReportSamples[2],
   ReportSamples[3] \o ReportSamples[1]}

\* new PTouch({device, model, write_only}) on a device that sends one of
\* the streams.
DriverMade(streams) ==
  /\ d_file \in {"PTouch.js", "part_003"}
  /\ d_write_only \in BOOLEAN
  /\ \E i \in (IF d_write_only THEN {1, 8} ELSE {1}) :
       d_status = FirstStatus(d_file, MODELS[i])
  /\ d_device \in (IF d_write_only THEN {<<>>} ELSE streams)
  /\ d_image = <<>>
  /\ d_fd = "undefined"
  /\ d_initialised = FALSE
  /\ d_statusBlock = <<>>
  /\ d_init = "none"
  /\ d_inits = <<>>
  /\ d_listening = FALSE
  /\ d_reads = 0
  /\ d_timers = 0
  /\ d_print = "none"
  /\ d_written = <<>>
  /\ d_events = <<>>
  /\ d_eject = NoCall
  /\ d_await = NoCall
  /\ CodecIdle
  /\ StatusIdle
  /\ ModelsIdle
  /\ AcquireIdle
  /\ ImageIdle

DriverInit == DriverMade(DeviceStreams)

\* The event loop runs: printImage is not in a loop that does not end.
Running == d_print # "hang"

\* What the driver is made with.
driverSetup == <<d_file, d_write_only>>

\* A rejection of initialise() that printImage() does not see: its callback
\* runs as after a resolved promise.
InitRejectedUnseen ==
  /\ d_init' = "rejected"
  /\ d_print' = IF d_print = "initialising" THEN "ready" ELSE d_print

\* The promise of initialise() is rejected; printImage, when it waits for
\* it, is rejected with it.
InitRejected ==
  /\ d_init' = "rejected"
  /\ d_print' = IF d_print = "initialising" THEN "rejected" ELSE d_print

\* The promise of initialise() is resolved; printImage, when it waits for
\* it, goes on.
InitResolved ==
  /\ d_init' = "resolved"
  /\ d_print' = IF d_print = "initialising" THEN "ready" ELSE d_print

\* An initialise() without the test of this.initialised: Fs.open is called on
\* every call.
initialiseAgain(initialised, init) == "opening"

\* Where initialise() leaves its promise chain: it returns at once when the
\* driver is initialised, else Fs.open is called.
initialise(initialised, init) == IF initialised THEN init ELSE "opening"

\* dev.initialise() by the client.
Initialise ==
  /\ Running
  /\ d_initialised \/ d_init \in {"none", "resolved", "rejected"}
  /\ Len(d_inits) < MaxInits
  /\ d_init' = initialise(d_initialised, d_init)
  /\ d_inits' = Append(d_inits, IF d_initialised THEN "returned"
                                 ELSE "opening")
  /\ UNCHANGED <<driverSetup, d_image, d_status, d_device, d_fd, d_initialised,
                 d_statusBlock, d_listening, d_reads, d_timers, d_print,
                 d_written, d_events, d_eject, d_await>>
  /\ UNCHANGED notDriverVars

\* .then(fd => { this.fd = fd; ... }): reset() in PTouch.js, the write of
\* the reset and start bytes in part_003.
InitOpened ==
  /\ Running
  /\ d_init = "opening"
  /\ d_fd' = "open"
  /\ d_written' = d_written \o (IF d_file = "PTouch.js" THEN ResetBytes
                                ELSE ResetAndStartBytes)
  /\ d_init' = "reset"
  /\ UNCHANGED <<driverSetup, d_image, d_status, d_device, d_initialised,
                 d_statusBlock, d_inits, d_listening, d_reads, d_timers,
                 d_print, d_events, d_eject, d_await>>
  /\ UNCHANGED notDriverVars

\* Fs.open(this.device, mode) fails, the device being missing or not
\* accessible: the promise of initialise() is rejected with the error of
\* Fs.open and none of its callbacks runs.
InitOpenFailed ==
  /\ Running
  /\ d_init = "opening"
  /\ InitRejected
  /\ UNCHANGED <<driverSetup, d_image, d_status, d_device, d_fd, d_initialised,
                 d_statusBlock, d_inits, d_listening, d_reads, d_timers,
                 d_written, d_events, d_eject, d_await>>
  /\ UNCHANGED notDriverVars

\* PTouch.js: .then(() => this.pollStatus()): nothing on a write-only
\* device, else a read is started; this.fd.read throws when the device has
\* been closed.
InitPollStatus ==
  /\ Running
  /\ d_file = "PTouch.js"
  /\ d_init = "reset"
  /\ IF d_write_only
     THEN d_init' = "polling" /\ UNCHANGED <<d_reads, d_print>>
     ELSE IF d_fd = "open"
     THEN d_init' = "polling" /\ d_reads' = d_reads + 1 /\ UNCHANGED d_print
     ELSE InitRejected /\ UNCHANGED d_reads
  /\ UNCHANGED <<driverSetup, d_image, d_status, d_device, d_fd, d_initialised,
                 d_statusBlock, d_inits, d_listening, d_timers, d_written,
                 d_events, d_eject, d_await>>
  /\ UNCHANGED notDriverVars

\* PTouch.js: .then(() => this.write(Commands.SEND_STATUS))
InitSendStatus ==
  /\ Running
  /\ d_init = "polling"
  /\ IF d_fd = "open"
     THEN /\ d_init' = "sent"
          /\ d_written' = d_written \o SEND_STATUS
          /\ UNCHANGED d_print
     ELSE InitRejected /\ UNCHANGED d_written
  /\ UNCHANGED <<driverSetup, d_image, d_status, d_device, d_fd, d_initialised,
                 d_statusBlock, d_inits, d_listening, d_reads, d_timers,
                 d_events, d_eject, d_await>>
  /\ UNCHANGED notDriverVars

\* PTouch.js: .then(() => new Promise(resolve => {
\* this.once(PRINTER_STATE_CHANGE, ...
InitAwait ==
  /\ Running
  /\ d_init = "sent"
  /\ d_init' = "waiting"
  /\ d_listening' = TRUE
  /\ UNCHANGED <<driverSetup, d_image, d_status, d_device, d_fd, d_initialised,
                 d_statusBlock, d_inits, d_reads, d_timers, d_print,
                 d_written, d_events, d_eject, d_await>>
  /\ UNCHANGED notDriverVars

\* part_003: the callback after the first write.  A write-only driver is
\* initialised.  Else the listener of UPDATE_EVENT is registered,
\* pollStatus() starts a read and SEND_STATUS is written; this.fd.read
\* throws when the device has been closed, and the promise is rejected with
\* the listener left registered.
InitStarted ==
  /\ Running
  /\ d_file = "part_003"
  /\ d_init = "reset"
  /\ IF d_write_only
     THEN /\ d_initialised' = TRUE
          /\ InitResolved
          /\ UNCHANGED <<d_listening, d_reads, d_written>>
     ELSE /\ d_listening' = TRUE
          /\ UNCHANGED d_initialised
          /\ IF d_fd = "open"
             THEN /\ d_reads' = d_reads + 1
                  /\ d_written' = d_written \o SEND_STATUS
                  /\ d_init' = "waiting"
                  /\ UNCHANGED d_print
             ELSE InitRejected /\ UNCHANGED <<d_reads, d_written>>
  /\ UNCHANGED <<driverSetup, d_image, d_status, d_device, d_fd, d_statusBlock,
                 d_inits, d_timers, d_events, d_eject, d_await>>
  /\ UNCHANGED notDriverVars

\* this.read().then(reply => ...) of pollStatus: the read returns the next n
\* bytes the printer has sent; the blocks in them become the status and are
\* announced, and the next poll is set for 200 ms later.  The listener of
\* initialise() runs at the first announcement: it sets initialised, in
\* PTouch.js it writes StartBytes, and the promise of initialise() resolves.
\* No next poll is set when the callback throws.
PollRead ==
  /\ Running
  /\ d_reads > 0
  /\ \E n \in {0, ReadSize, Len(d_device)},
        failing \in {d_file = "PTouch.js" /\ d_listening /\ d_fd # "open"} :
       /\ n <= Len(d_device)
       /\ \E polled \in {pollBytes(d_file, SubSeq(d_device, 1, n), 1,
                                    PollStart(d_statusBlock, d_status, <<>>),
                                    failing)} :
            \E heard \in {d_listening /\ polled.events # <<>>} :
              /\ d_device' = SubSeq(d_device, n + 1, Len(d_device))
              /\ d_statusBlock' = polled.statusBlock
              /\ d_status' = polled.status
              /\ d_events' = d_events \o polled.events
              /\ d_initialised' = (d_initialised \/ heard)
              /\ d_listening' = (d_listening /\ ~heard)
              /\ d_written' = IF heard /\ ~failing /\ d_file = "PTouch.js"
                              THEN d_written \o StartBytes ELSE d_written
              /\ IF heard /\ ~failing /\ d_init = "waiting"
                 THEN InitResolved ELSE UNCHANGED <<d_init, d_print>>
              /\ d_timers' = IF polled.thrown THEN d_timers ELSE d_timers + 1
  /\ d_reads' = d_reads - 1
  /\ UNCHANGED <<driverSetup, d_image, d_fd, d_inits, d_eject, d_await>>
  /\ UNCHANGED notDriverVars

\* setTimeout(() => this.pollStatus(true), 200): the next read is started;
\* this.fd.read throws when the device has been closed.
PollTimer ==
  /\ Running
  /\ d_timers > 0
  /\ d_timers' = d_timers - 1
  /\ d_reads' = IF d_fd = "open" THEN d_reads + 1 ELSE d_reads
  /\ UNCHANGED <<driverSetup, d_image, d_status, d_device, d_fd, d_initialised,
                 d_statusBlock, d_init, d_inits, d_listening, d_print,
                 d_written, d_events, d_eject, d_await>>
  /\ UNCHANGED notDriverVars

\* dev.printImage(image, width, height) by the client: this.initialise()
\* returns at once on an initialised driver, else Fs.open is called.
PrintImageCall ==
  /\ Running
  /\ d_print = "none"
  /\ d_initialised \/ d_init \in {"none", "resolved", "rejected"}
  /\ Len(d_inits) < MaxInits
  /\ d_inits' = Append(d_inits, IF d_initialised THEN "returned"
                                 ELSE "opening")
  /\ d_init' = initialise(d_initialised, d_init)
  /\ d_print' = IF d_initialised THEN "ready" ELSE "initialising"
  /\ d_image' \in DriverImages
  /\ UNCHANGED <<driverSetup, d_status, d_device, d_fd, d_initialised,
                 d_statusBlock, d_listening, d_reads, d_timers, d_written,
                 d_events, d_eject, d_await>>
  /\ UNCHANGED notDriverVars

\* .then(() => { ... return this.write(buffer); }) of printImage
PrintImageThen ==
  /\ Running
  /\ d_print = "ready"
  /\ \E printed \in {printImage(d_status, d_image.image, d_image.width,
                                d_image.height)} :
       IF printed.outcome = "written" /\ d_fd = "open"
       THEN d_print' = "written" /\ d_written' = d_written \o printed.written
       ELSE /\ d_print' = IF printed.outcome = "written" THEN "rejected"
                          ELSE printed.outcome
            /\ UNCHANGED d_written
  /\ UNCHANGED <<driverSetup, d_image, d_status, d_device, d_fd, d_initialised,
                 d_statusBlock, d_init, d_inits, d_listening, d_reads,
                 d_timers, d_events, d_eject, d_await>>
  /\ UNCHANGED notDriverVars

\* dev.eject(count) by the client, as POST_eject calls it: eject() has no
\* parameter, the buffer is made from this.status.eject_px and written;
\* this.fd.write throws when the device is not open.  The call is recorded
\* with the count passed and the bytes written.
Eject ==
  /\ Running
  /\ d_eject = NoCall
  /\ \E count \in EjectCounts, buff \in {EjectBuffer(d_status)} :
       IF buff.ok /\ d_fd = "open"
       THEN /\ d_written' = d_written \o buff.value
            /\ d_eject' = [pc |-> "written", count |-> count,
                           buffer |-> buff.value]
       ELSE /\ UNCHANGED d_written
            /\ d_eject' = [pc |-> "thrown", count |-> count,
                           buffer |-> <<>>]
  /\ UNCHANGED <<driverSetup, d_image, d_status, d_device, d_fd, d_initialised,
                 d_statusBlock, d_init, d_inits, d_listening, d_reads,
                 d_timers, d_print, d_events, d_await>>
  /\ UNCHANGED notDriverVars

\* dev.awaitPrinted() by the client: resolved at once on a write-only
\* device; else a listener is registered for the event "Status" (PTouch.js)
\* or PTouchStatus.Type.PRINTED, which is undefined (part_003).  pollStatus
\* raises neither event.
AwaitPrinted ==
  /\ Running
  /\ d_await = NoCall
  /\ d_print # "none"
  /\ d_await' = [pc |-> IF d_write_only THEN "resolved" ELSE "waiting",
                 from |-> Len(d_events)]
  /\ UNCHANGED <<driverSetup, d_image, d_status, d_device, d_fd, d_initialised,
                 d_statusBlock, d_init, d_inits, d_listening, d_reads,
                 d_timers, d_print, d_written, d_events, d_eject>>
  /\ UNCHANGED notDriverVars

\* dev.close() by the client
Close ==
  /\ Running
  /\ d_fd = "open" \/ d_initialised
  /\ d_fd' = "undefined"
  /\ d_initialised' = FALSE
  /\ UNCHANGED <<driverSetup, d_image, d_status, d_device, d_statusBlock, d_init,
                 d_inits, d_listening, d_reads, d_timers, d_print,
                 d_written, d_events, d_eject, d_await>>
  /\ UNCHANGED notDriverVars

Next ==
  \/ Initialise
  \/ InitOpened
  \/ InitOpenFailed
  \/ InitPollStatus
  \/ InitSendStatus
  \/ InitAwait
  \/ InitStarted
  \/ PollRead
  \/ PollTimer
  \/ PrintImageCall
  \/ PrintImageThen
  \/ Eject
  \/ AwaitPrinted
  \/ Close

Spec == DriverInit /\ [][Next]_vars

\* The driver of a write-only device that can be opened, where no read is
\* started and no poll is set.  The event loop runs every callback of the promise chain
\* of initialise() that is due; the calls of the client are not forced.
WriteOnlyNext ==
  \/ Initialise
  \/ InitOpened
  \/ InitPollStatus
  \/ InitSendStatus
  \/ InitAwait
  \/ InitStarted
  \/ PrintImageCall
  \/ PrintImageThen
  \/ Eject
  \/ AwaitPrinted
  \/ Close

WriteOnlyInit == DriverInit /\ d_write_only = TRUE

SpecWriteOnly ==
  /\ WriteOnlyInit
  /\ [][WriteOnlyNext]_vars
  /\ WF_vars(InitOpened)
  /\ WF_vars(InitPollStatus)
  /\ WF_vars(InitSendStatus)
  /\ WF_vars(InitAwait)
  /\ WF_vars(InitStarted)

\* The driver with a client that calls initialise(), printImage() and
\* close() only: eject() and awaitPrinted() start no read, set no poll and
\* leave the status, the accumulator and the promise chain of initialise()
\* alone.
PollingNext ==
  \/ Initialise
  \/ InitOpened
  \/ InitOpenFailed
  \/ InitPollStatus
  \/ InitSendStatus
  \/ InitAwait
  \/ InitStarted
  \/ PollRead
  \/ PollTimer
  \/ PrintImageCall
  \/ PrintImageThen
  \/ Close

SpecPolling == DriverInit /\ [][PollingNext]_vars

\* The same driver and client with a printer that sends whole reports.
ReportsInit == DriverMade(ReportSequences)

SpecReports == ReportsInit /\ [][PollingNext]_vars

(***************************************************************************)
(* The older driver of src/server/src/PrinterStatus.js: initialise() opens *)
(* the device, resets it and asks for a status report with                 *)
(* getStatusReport(), which writes SEND_STATUS, reads once and calls       *)
(* itself again when the read brought nothing that begins with the print   *)
(* head mark.                                                              *)
(***************************************************************************)

MaxAttempts == 3

MaxReplies == 2

\* What a read can bring: nothing; bytes without the print head mark; a
\* report; a report with a wrong Brother code; the first 20 bytes of a
\* report; a report with a device code that is in no table.
ReplySamples ==
  LET r == Report(89, 12, 0, 0, 0, 0)
  IN {<<>>, <<0, 0, 0>>, r, [r EXCEPT ![3] = 0], SubSeq(r, 1, 20),
      Report(90, 12, 0, 0, 0, 0)}

\* The buffer of a read: fd.read is given no buffer and allocates one of
\* 16384 zero bytes, which the bytes read fill from the start; the bytes
\* parseRaw looks at are among its first 32.
ReadBuffer(reply) ==
  IF Len(reply) >= 32 THEN reply
  ELSE reply \o [k \in 1..(32 - Len(reply)) |-> 0]

\* The bytes reset() of the older driver writes.
OldResetBytes == [k \in 1..200 |-> 0] \o <<27, 64>>

\* new PTouch({device, model}) of the older driver; the model is PT1230, or
\* PT1230_F for a write-only device.
AcquireInit ==
  /\ a_write_only \in BOOLEAN
  /\ a_status =
       [PrinterStatus_from(PrinterStatus_MODELS[1].defaultStatus)
          EXCEPT !.model = PrinterStatus_MODELS[1].name]
  /\ a_initialised = FALSE
  /\ a_pc = "none"
  /\ a_replies \in (IF a_write_only THEN {<<>>}
                    ELSE SeqsUpTo(MaxReplies, ReplySamples))
  /\ a_written = <<>>
  /\ a_attempts = 0
  /\ CodecIdle
  /\ StatusIdle
  /\ ModelsIdle
  /\ ImageIdle
  /\ DriverIdle

\* getStatusReport() is called: this.write(SEND_STATUS).  The calls are
\* counted, and their bytes kept, up to MaxAttempts.
getStatusReport ==
  /\ a_pc' = "wrote"
  /\ a_attempts' = (IF a_attempts < MaxAttempts THEN a_attempts + 1
                    ELSE a_attempts)
  /\ a_written' = (IF a_attempts < MaxAttempts THEN a_written \o SEND_STATUS
                   ELSE a_written)

\* dev.initialise(): Fs.open(this.device, mode)
AcquireInitialise ==
  /\ a_pc = "none"
  /\ ~a_initialised
  /\ a_pc' = "opening"
  /\ UNCHANGED <<a_write_only, a_status, a_initialised, a_replies,
                 a_written, a_attempts>>
  /\ UNCHANGED notAcquireVars

\* .then(fd => { this.fd = fd; return this.reset(); })
AcquireOpened ==
  /\ a_pc = "opening"
  /\ a_pc' = "reset"
  /\ a_written' = a_written \o OldResetBytes
  /\ UNCHANGED <<a_write_only, a_status, a_initialised, a_replies,
                 a_attempts>>
  /\ UNCHANGED notAcquireVars

\* .then(() => this.write_only ? Promise.resolve(this)
\*                             : this.getStatusReport())
AcquireReset ==
  /\ a_pc = "reset"
  /\ IF a_write_only
     THEN a_pc' = "acquired" /\ UNCHANGED <<a_written, a_attempts>>
     ELSE getStatusReport
  /\ UNCHANGED <<a_write_only, a_status, a_initialised, a_replies>>
  /\ UNCHANGED notAcquireVars

\* .then(res => this.read())
AcquireWrote ==
  /\ a_pc = "wrote"
  /\ a_pc' = "reading"
  /\ UNCHANGED <<a_write_only, a_status, a_initialised, a_replies,
                 a_written, a_attempts>>
  /\ UNCHANGED notAcquireVars

\* .then(res => { ... }): a reply that begins with the print head mark is
\* parsed, and the promise is rejected when the constructor throws; after
\* any other reply, and after none, getStatusReport() is called again.
AcquireRead ==
  /\ a_pc = "reading"
  /\ \E reply \in {IF a_replies = <<>> THEN <<>> ELSE Head(a_replies)} :
       IF Len(reply) > 0 /\ reply[1] = 128
       THEN \E made \in {PrinterStatus_constructor(ReadBuffer(reply))} :
              /\ a_status' = (IF made.ok THEN made.value ELSE a_status)
              /\ a_pc' = (IF made.ok THEN "acquired" ELSE "rejected")
              /\ UNCHANGED <<a_written, a_attempts>>
       ELSE getStatusReport /\ UNCHANGED a_status
  /\ a_replies' = (IF a_replies = <<>> THEN <<>> ELSE Tail(a_replies))
  /\ UNCHANGED <<a_write_only, a_initialised>>
  /\ UNCHANGED notAcquireVars

\* .then(() => { this.initialised = true; return this; })
AcquireDone ==
  /\ a_pc = "acquired"
  /\ a_pc' = "resolved"
  /\ a_initialised' = TRUE
  /\ UNCHANGED <<a_write_only, a_status, a_replies, a_written, a_attempts>>
  /\ UNCHANGED notAcquireVars

AcquireNext ==
  \/ AcquireInitialise
  \/ AcquireOpened
  \/ AcquireReset
  \/ AcquireWrote
  \/ AcquireRead
  \/ AcquireDone

\* The event loop runs every callback of the promise chain that is due; the
\* call of initialise() is the client's and is not forced.  The callback of
\* the read is due whenever a_pc is "reading" and always leaves it, so that
\* it runs when due is: a_pc does not stay "reading".
SpecAcquire ==
  /\ AcquireInit
  /\ [][AcquireNext]_vars
  /\ WF_vars(AcquireOpened)
  /\ WF_vars(AcquireReset)
  /\ WF_vars(AcquireWrote)
  /\ WF_vars(AcquireDone)
  /\ []<>(a_pc # "reading")

(***************************************************************************)
(* Claims about the command codec                                          *)
(***************************************************************************)

\* Whether the arguments of a text command fit the wire format: a mode in one
\* byte, a raster payload whose length fits two bytes.
MaxRasterLength == 65535

FitsWire(command) ==
  LET f == Split(command)
  IN CASE f[1] \in {<<"Raster_mode">>, <<"Compress">>} -> ParseInt(f[2]) <= 255
       [] f[1] = <<"Raster">> -> Len(f[2]) <= 2 * MaxRasterLength
       [] OTHER -> TRUE

RoundTrips == (c_pc = "mid" => c_mid.ok)
              /\ (c_pc = "done" => c_back.ok /\ c_back.value = c_in)

\* C1 as stated: for every sequence of text commands, whatever the mode
\* number and however long the raster payload, fromBinary(toBinary(commands))
\* equals the original sequence.
C1_AsStated == c_dir = "text" => RoundTrips

\* C1 amended: for every sequence of text commands whose mode numbers are at
\* most 255 and whose raster payloads are at most 65535 bytes long,
\* fromBinary(toBinary(commands)) equals the original sequence.
C1_RoundTripText ==
  (c_dir = "text" /\ \A k \in 1..Len(c_in) : FitsWire(c_in[k])) => RoundTrips

\* C1 witness: Feed 65535 and a zero-length raster have gone through toBinary
\* and fromBinary and came back unchanged.
C1_Witness ==
  /\ c_dir = "text" /\ c_pc = "done"
  /\ c_in = << <<"Feed", " ", "6", "5", "5", "3", "5">>, <<"Raster", " ">> >>
  /\ c_mid.value = <<27, 105, 100, 255, 255, 71, 0, 0>>
  /\ c_back.value = c_in

\* C2: for every byte stream that is a concatenation of complete commands,
\* toBinary(fromBinary(bytes)) returns the same bytes.
C2_RoundTripBytes == c_dir = "bytes" => RoundTrips

\* C2 witness: a stream of a Feed and a one-byte Raster has been decoded and
\* encoded back to the same bytes.
C2_Witness ==
  /\ c_dir = "bytes" /\ c_pc = "done"
  /\ c_in = <<27, 105, 100, 0, 1, 71, 1, 0, 171>>
  /\ c_mid.value = << <<"Feed", " ", "2", "5", "6">>, <<"Raster", " ", "a", "b">> >>
  /\ c_back.value = c_in

\* The opcode grammar: whether the bytes from index i (0-based) on are
\* complete commands one after the other.
RECURSIVE InGrammarFrom(_, _)
InGrammarFrom(b, i) ==
  IF i = Len(b) THEN TRUE
  ELSE
    LET op == b[i + 1]
    IN CASE op \in {0, 26, 12, 90} -> InGrammarFrom(b, i + 1)
         [] op = 77 -> i + 2 <= Len(b) /\ InGrammarFrom(b, i + 2)
         [] op = 27 ->
              /\ i + 2 <= Len(b)
              /\ CASE b[i + 2] = 64 -> InGrammarFrom(b, i + 2)
                   [] b[i + 2] = 105 ->
                        /\ i + 3 <= Len(b)
                        /\ CASE b[i + 3] = 83 -> InGrammarFrom(b, i + 3)
                             [] b[i + 3] = 82 -> i + 4 <= Len(b) /\ InGrammarFrom(b, i + 4)
                             [] b[i + 3] = 100 -> i + 5 <= Len(b) /\ InGrammarFrom(b, i + 5)
                             [] OTHER -> FALSE
                   [] OTHER -> FALSE
         [] op = 71 ->
              /\ i + 3 <= Len(b)
              /\ i + 3 + b[i + 2] + 256 * b[i + 3] <= Len(b)
              /\ InGrammarFrom(b, i + 3 + b[i + 2] + 256 * b[i + 3])
         [] OTHER -> FALSE

InGrammar(b) == InGrammarFrom(b, 0)

\* C3: decoding a byte sequence outside the opcode grammar (an unknown
\* opcode, a wrong escape sequence, a command cut off by the end of the
\* buffer) fails; it never returns a command list.
C3_DecodeRejects ==
  (c_dir = "raw" /\ c_pc = "mid" /\ ~InGrammar(c_in)) => ~c_mid.ok

(***************************************************************************)
(* Claims about the status codec                                           *)
(***************************************************************************)

\* The report is too short or one of the bytes that are checked is wrong.
Malformed(raw) ==
  \/ Len(raw) < 32
  \/ At(raw, 0) # 128
  \/ At(raw, 2) # 66
  \/ At(raw, 3) # 48
  \/ At(raw, 5) # 48
  \/ At(raw, 4) \notin KnownDeviceCodes

HasRun(result) == result # NoResult

\* C4: parsing a report of fewer than 32 bytes, or whose byte 0 is not 0x80,
\* byte 2 not 0x42, byte 3 not 0x30, byte 5 not 0x30, or whose byte 4 is a
\* device code without a table entry, fails in both status classes: no
\* status record is produced.
C4_MalformedRejected ==
  (s_kind = "report" /\ Malformed(s_raw)) => (~s_new.ok /\ ~s_old.ok)

\* C4 witness: both classes have refused a report whose device code is not in
\* the table, and both have refused a report of 31 bytes.
C4_Witness ==
  /\ s_kind = "report"
  /\ \/ Len(s_raw) = 32 /\ At(s_raw, 4) = 90
        /\ s_new.error = "Unsupported device code"
        /\ s_old.error = "Unsupported device code"
     \/ Len(s_raw) = 31
        /\ s_new.error = "Bad report length"
        /\ s_old.error = "Bad report length"

\* The pixel width of a status is the quotient raster_mm / raster_px.
PixelWidthIsQuotient(status) ==
  NumEq(status.pixel_width_mm, Over(status.raster_mm, status.raster_px))

\* C5: for every 32-byte report with the right marker and codes and a known
\* device code, whatever the other bytes, parsing succeeds and the status
\* has pixel_width_mm equal to raster_mm / raster_px.
C5_WellFormedParses ==
  (s_kind = "report" /\ ~Malformed(s_raw)) =>
    /\ HasRun(s_new) => (s_new.ok /\ PixelWidthIsQuotient(s_new.value))
    /\ HasRun(s_old) => (s_old.ok /\ PixelWidthIsQuotient(s_old.value))

\* The three derived dimensions of a status follow from its primary fields.
Derived(status) ==
  /\ NumEq(status.eject_px,
           Floor(Plus(Over(Times(status.raster_px, status.eject_mm),
                           status.raster_mm), Half)))
  /\ PixelWidthIsQuotient(status)
  /\ NumEq(status.media_width_px,
           Over(status.media_width_mm, status.pixel_width_mm))

\* The status built from the default status block of the PT1230.
FromPT1230Defaults(result) ==
  /\ s_kind = "template" /\ s_template = MODELS[1].defaultStatus
  /\ HasRun(result)

\* C6: every status record, built from a default status block or parsed from
\* a report, has eject_px = floor(raster_px * eject_mm / raster_mm + 1/2),
\* pixel_width_mm = raster_mm / raster_px and media_width_px =
\* media_width_mm / pixel_width_mm; the one built from the PT1230 defaults
\* has eject_mm = 20, eject_px = 142 and pixel_width_mm = 9/64.
C6_DerivedDimensions ==
  /\ \A result \in {s_new, s_old} :
       (HasRun(result) /\ result.ok) => Derived(result.value)
  /\ \A result \in {s_new, s_old} :
       FromPT1230Defaults(result) =>
         /\ result.value.eject_mm = Num(20)
         /\ result.value.eject_px = Num(142)
         /\ result.value.pixel_width_mm = Rat(9, 64)

\* The printable width of a status against the one of its model.
Clamped(status, model) ==
  LET model_px == Field(model.defaultStatus, "printable_width_px", Num(0))
  IN /\ LessThan(status.media_width_px, model_px) =>
          NumEq(status.printable_width_px, status.media_width_px)
     /\ ~LessThan(status.media_width_px, model_px) =>
          NumEq(status.printable_width_px, model_px)
     /\ NumEq(status.printable_width_mm,
              Times(status.printable_width_px, status.pixel_width_mm))
     /\ AtMost(status.printable_width_px, status.media_width_px)

\* C7: in every status record the printable width is the width of the tape
\* when the tape is narrower than the printable area of the model, with
\* printable_width_mm = printable_width_px * pixel_width_mm, and is the
\* model's value otherwise; hence printable_width_px <= media_width_px.
C7_NarrowTapeClamp ==
  /\ (HasRun(s_new) /\ s_new.ok /\ s_kind = "report") =>
       Clamped(s_new.value, getModelByDeviceCode(At(s_raw, 4)))
  /\ (HasRun(s_old) /\ s_old.ok /\ s_kind = "report") =>
       Clamped(s_old.value, PrinterStatus_getModelByDeviceCode(At(s_raw, 4)))

(***************************************************************************)
(* Claims about the model table                                            *)
(***************************************************************************)

\* The table a lookup searches.
C22_Table ==
  IF m_lookup.file = "part_001" THEN MODELS ELSE PrinterStatus_MODELS

\* The entries of the table whose name the name passed begins with.
C22_Prefixes ==
  {i \in 1..Len(C22_Table) :
     LET name == Chars(C22_Table[i].name)
     IN /\ Len(name) <= Len(m_lookup.arg)
        /\ \A k \in 1..Len(name) : m_lookup.arg[k] = name[k]}

\* C22: a lookup by name returns the first entry of the table whose name
\* is a prefix of the name passed, PT1230 for PT1230PC, and nothing when
\* there is none; a lookup by device code returns the entry with that code
\* and nothing for a code that is not in the table; default() returns the
\* first entry.
C22_ModelLookup ==
  m_found # NoResult =>
    /\ m_found.ok
    /\ CASE m_lookup.by = "name" ->
             /\ IF C22_Prefixes = {} THEN m_found.value = NoModel
                ELSE \E i \in C22_Prefixes :
                       /\ \A j \in C22_Prefixes : i <= j
                       /\ m_found.value = C22_Table[i]
             /\ m_lookup.arg = <<"P", "T", "1", "2", "3", "0", "P", "C">>
                  => m_found.value.name = "PT1230"
           [] m_lookup.by = "code" ->
             IF \E i \in 1..Len(C22_Table) :
                  C22_Table[i].deviceCode = m_lookup.arg
             THEN /\ m_found.value.deviceCode = m_lookup.arg
                  /\ \E i \in 1..Len(C22_Table) : m_found.value = C22_Table[i]
             ELSE m_found.value = NoModel
           [] OTHER -> m_found.value = MODELS[1]

\* PT1230PC has been looked up in the table of Models and PT1230 was found.
C22_Witness ==
  /\ m_lookup = [by |-> "name", file |-> "part_001",
                 arg |-> <<"P", "T", "1", "2", "3", "0", "P", "C">>]
  /\ m_found.ok
  /\ m_found.value.name = "PT1230"

(***************************************************************************)
(* Claims about the raster encoder                                         *)
(***************************************************************************)

Printed == i_result.outcome = "written"

\* The text commands of the bytes printImage wrote.
PrintedText == fromBinary(i_result.written)

\* One past the last column of a tape run.
RunEnd(run) == Plus(run.offset, run.printwidth)

Blank(image) == \A i \in 1..Len(image) : i % 4 = 0 => image[i] = 0

\* C9: for an image without any pixel of alpha > 0, of any width and height,
\* the bytes printImage writes are, for each of the ceil(w /
\* printable_width_px) tape runs, one EMPTY_RASTER per image row followed by
\* one PRINT_NOFEED, and nothing else.
C9_BlankImage ==
  (Blank(i_image) /\ i_result.outcome \in {"written", "thrown"}) =>
    /\ Printed
    /\ i_result.written =
         Flatten([r \in 1..Ceil(Over(Num(i_width), i_status.printable_width_px))[1] |->
                    [k \in 1..i_height |-> EMPTY_RASTER] \o <<PRINT_NOFEED>>])

\* C9 witness: a blank image of 160 by 2 pixels whose colour bytes are 255 has
\* been printed as three runs of two EMPTY_RASTER and a PRINT_NOFEED.
C9_Witness ==
  /\ Printed
  /\ Blank(i_image)
  /\ i_width = 160 /\ i_height = 2
  /\ i_image[1] = 255
  /\ i_result.written = <<90, 90, 12, 90, 90, 12, 90, 90, 12>>

\* The commands a printer reads in the bytes of a print: RASTER_DATA with
\* the length its two length bytes declare and that many bytes of payload,
\* any other byte a command of its own.
RECURSIVE RasterCommands(_, _)
RasterCommands(bytes, k) ==
  IF k > Len(bytes) THEN <<>>
  ELSE IF bytes[k] = RASTER_DATA /\ k + 2 <= Len(bytes)
  THEN LET declared == bytes[k + 1] + 256 * bytes[k + 2]
       IN <<[command |-> RASTER_DATA, declared |-> declared,
             payload |-> SubSeq(bytes, k + 3,
                                IF k + 2 + declared > Len(bytes)
                                THEN Len(bytes) ELSE k + 2 + declared)]>>
          \o RasterCommands(bytes, k + 3 + declared)
  ELSE <<[command |-> bytes[k], declared |-> 0, payload |-> <<>>]>>
       \o RasterCommands(bytes, k + 1)

PrintedCommands == RasterCommands(i_result.written, 1)

\* The command of row y of tape run r of a print of height rows.
RowCommand(cmds, height, r, y) == cmds[(r - 1) * (height + 1) + (height - y)]

\* Bit j of a byte, bit 7 the most significant.
BitSet(byte, j) == (byte \div 2 ^ j) % 2 = 1

\* C27: for every row of every tape run, a RasterRow payload has exactly
\* byte_count = (padding_px + printable_width_px) / 8 bytes and the length it
\* declares (lo + hi * 256) is byte_count; a mark pixel at column x of the run
\* sets bit 7 - ((padding_px + x) mod 8) of byte floor((padding_px + x) / 8),
\* and every other bit of the payload is 0.
C27_RasterRowLayout ==
  Printed =>
    LET runs == i_result.runs
        padding == Padding(i_status)
        byte_count == ByteCount(i_status)
    IN /\ Len(PrintedCommands) = Len(runs) * (i_height + 1)
       /\ \A r \in 1..Len(runs), y \in 0..(i_height - 1) :
            \E row \in {RowCommand(PrintedCommands, i_height, r, y)} :
              row.command = RASTER_DATA =>
                /\ byte_count = Num(Len(row.payload))
                /\ row.declared = Len(row.payload)
                /\ padding[2] = 1 /\ runs[r].offset[2] = 1
                /\ \A b \in 0..(Len(row.payload) - 1), j \in 0..7 :
                     BitSet(row.payload[b + 1], j)
                       <=> \E x \in 0..(Iterations(runs[r].printwidth) - 1) :
                             /\ At(i_image, (y * i_width + runs[r].offset[1] + x) * 4 + 3) > 0
                             /\ (padding[1] + x) \div 8 = b
                             /\ 7 - ((padding[1] + x) % 8) = j

\* The columns of row y that lie in a tape run and hold a mark (alpha > 0).
RunMarks(run, y) ==
  {x \in 0..(i_width - 1) :
     /\ AtMost(run.offset, Num(x))
     /\ LessThan(Num(x), RunEnd(run))
     /\ At(i_image, (y * i_width + x) * 4 + 3) > 0}

C29_EmptyIffNoMark ==
  (Printed /\ Len(PrintedCommands) = Len(i_result.runs) * (i_height + 1)) =>
    \A r \in 1..Len(i_result.runs), y \in 0..(i_height - 1) :
      /\ RowCommand(PrintedCommands, i_height, r, y).command = EMPTY_RASTER
           <=> RunMarks(i_result.runs[r], y) = {}
      /\ RunMarks(i_result.runs[r], y) # {}
           => RowCommand(PrintedCommands, i_height, r, y).command = RASTER_DATA

\* C30: printImage of an image with width 0 or height 0 does not fault and
\* writes the empty command sequence: no raster command and no PRINT_NOFEED.
C30_NothingForNoPixels ==
  (i_result # NoPrint /\ (i_width = 0 \/ i_height = 0)) =>
    /\ Printed
    /\ i_result.written = <<>>

(***************************************************************************)
(* Claims about the driver                                                 *)
(***************************************************************************)

\* The command stream of a print to a file: the reset, the start of raster
\* mode, and the raster commands of the image for the status of the driver.
ExpectedStream ==
  [k \in 1..200 |-> <<"Invalidate">>]
  \o << <<"Initialise_clear">>, <<"Compress", " ", "0">>,
        <<"Raster_mode", " ", "1">>, <<"Feed", " ", "0">> >>
  \o (IF d_print = "none" THEN <<>>
      ELSE fromBinary(printImage(d_status, d_image.image, d_image.width,
                                 d_image.height).written).value)

\* C10: on a write-only device, the bytes initialise() and printImage() have
\* written decode, in order, to 200 Invalidate, one Initialise_clear,
\* Compress 0, Raster_mode 1, Feed 0 and the raster commands of the image,
\* the last of them Print 0: at every moment to a leading part of that
\* stream, nothing else in between, and to all of it once printImage has
\* written.
C10_WriteOnlyStream ==
  (d_write_only /\ d_inits # <<>>) =>
    LET text == fromBinary(d_written)
    IN /\ text.ok
       /\ Len(text.value) <= Len(ExpectedStream)
       /\ text.value = SubSeq(ExpectedStream, 1, Len(text.value))
       /\ d_print = "written" =>
            /\ text.value = ExpectedStream
            /\ text.value[Len(text.value)] = <<"Print", " ", "0">>

\* The statuses a driver is made with.
DefaultStatuses ==
  {FirstStatus(d_file, MODELS[i]) : i \in 1..Len(MODELS)}

\* C11: on a write-only device no read is issued and no poll is set, no
\* status report is received, the cached status stays the one made from the
\* default status block of the model, and a call of initialise() that has
\* begun to open the device leads to the promise resolved with initialised
\* true.
C11_WriteOnlyInitialises ==
  /\ [](d_write_only =>
          /\ d_reads = 0 /\ d_timers = 0
          /\ d_events = <<>> /\ d_statusBlock = <<>>
          /\ d_status \in DefaultStatuses)
  /\ (d_write_only /\ d_init = "opening")
       ~> (d_init = "resolved" /\ d_initialised)

\* C12: on a read-write device initialised is true only after a status
\* report has been parsed, and a step that parses a report while
\* initialise() has issued SendStatus and has not resolved yet resolves it
\* with initialised true, whichever of the read and the write completes
\* first.
C12_FirstReportResolves ==
  /\ [](~d_write_only /\ d_initialised => d_events # <<>>)
  /\ [][(/\ ~d_write_only
         /\ d_init \in {"sent", "waiting"}
         /\ Len(d_events') > Len(d_events))
        => (d_init' = "resolved" /\ d_initialised')]_vars

\* C13: a call of initialise(), by the client or by printImage(), on a
\* driver that is initialised opens nothing, writes nothing, starts no read
\* and no poll, and leaves the cached status, the accumulator, the
\* initialised flag, the listeners and the promise chain as they were.
C13_InitialiseIdempotent ==
  [][(d_initialised /\ Len(d_inits') = Len(d_inits) + 1)
     => UNCHANGED <<d_fd, d_written, d_device, d_reads, d_timers, d_status,
                    d_statusBlock, d_initialised, d_init, d_listening,
                    d_events>>]_vars

\* initialise() has been called twice, the second time on the initialised
\* driver: one reset sequence has been written.
C13_Witness ==
  /\ Len(d_inits) = 2 /\ d_inits[2] = "returned"
  /\ d_initialised
  /\ d_init = "resolved"
  /\ d_print = "none"
  /\ d_eject = NoCall
  /\ Len(d_written) < 2 * Len(ResetBytes)

\* The bytes a step takes from the device, and the notifications it raises.
C14_Taken == SubSeq(d_device, 1, Len(d_device) - Len(d_device'))

C14_Raised == Len(d_events') - Len(d_events)

\* The block a step completes first: the accumulator and the bytes that fill
\* it, when the accumulator holds bytes or the device begins with
\* PRINT_HEAD_MARK, where both drivers start a block.
C14_FirstBlock ==
  IF /\ d_statusBlock # <<>> \/ (d_device # <<>> /\ d_device[1] = PRINT_HEAD_MARK)
     /\ Len(d_statusBlock) + Len(C14_Taken) >= 32
  THEN d_statusBlock \o SubSeq(d_device, 1, 32 - Len(d_statusBlock))
  ELSE <<>>

C15_CloseStopsPolling ==
  /\ [][(d_fd = "open" /\ d_fd' = "undefined") => ~d_initialised']_vars
  /\ [][(d_fd = "undefined" /\ d_fd' = "undefined")
        => (d_reads' <= d_reads /\ d_timers' <= d_timers)]_vars

\* C16: a driver has at most one poll loop: the reads in flight and the
\* polls that are set number one at most, whatever calls of initialise(),
\* printImage() and close() were made.
C16_OnePollLoop == d_reads + d_timers <= 1

\* A step in which printImage(), eject() or the reset of initialise() starts
\* a write.
C17_WriteStarts ==
  /\ d_written' # d_written
  /\ \/ d_eject' # d_eject
     \/ d_print # "written" /\ d_print' = "written"
     \/ d_init # "reset" /\ d_init' = "reset"

\* C17: printImage(), eject() and the reset of initialise() start a write
\* only when no poll read is in flight and no write of initialise() is
\* waiting for its completion (the reset, or SendStatus).
C17_ChannelSerialized ==
  [][C17_WriteStarts => (d_reads = 0 /\ d_init \notin {"reset", "sent"})]_vars

\* C18: eject(count) writes count bytes EMPTY_RASTER followed by one byte
\* PRINT_NOFEED, count being the number the caller passed.
C18_EjectWritesCount ==
  d_eject.pc = "written"
    => d_eject.buffer = [k \in 1..d_eject.count + 1 |->
                           IF k = d_eject.count + 1 THEN PRINT_NOFEED
                           ELSE EMPTY_RASTER]

\* C19: a call of eject() of the driver in PTouch.js does not throw (it
\* throws for want of an open device only; in part_003 Buffer.alloc throws
\* before the device is used), and a step in which printImage() or eject()
\* writes its bytes is taken by a driver that is initialised and whose
\* device is open.
C19_EnsureInitialised ==
  /\ [](d_eject.pc # "thrown" \/ d_file # "PTouch.js")
  /\ [][(/\ d_written' # d_written
         /\ d_eject' # d_eject \/ (d_print # "written" /\ d_print' = "written"))
        => (d_initialised /\ d_fd = "open")]_vars

\* C20: on a write-only device a call of awaitPrinted() is resolved at once;
\* on a read-write device it is resolved when a report of status type
\* Printing complete (byte 18 = 1) has been announced after the call.
C20_AwaitPrintedResolves ==
  LET Complete(status) ==
        IF d_file = "PTouch.js" THEN status.status_type = "Printing complete"
        ELSE status.status_type = 1
  IN IF d_write_only THEN d_await.pc \in {"none", "resolved"}
     ELSE (/\ d_await.pc # "none"
           /\ \E k \in d_await.from + 1 .. Len(d_events) :
                Complete(d_events[k].state))
          => d_await.pc = "resolved"

\* C21: when Fs.open fails, initialise() is rejected, and printImage() with
\* it when it waits for it: in that step nothing is written, no read is
\* started, no poll is set, the device handle and the initialised flag stay
\* as they were, and a printImage() so rejected never writes.
C21_OpenFailureRejects ==
  /\ [][(d_init = "opening" /\ d_init' # "opening" /\ d_fd' # "open")
        => /\ d_init' = "rejected"
           /\ d_print = "initialising" => d_print' = "rejected"
           /\ UNCHANGED <<d_written, d_device, d_reads, d_timers, d_fd,
                          d_initialised, d_status, d_statusBlock,
                          d_listening, d_events>>]_vars
  /\ [][d_print = "rejected" => UNCHANGED d_print]_vars

\* The first call, by printImage() on a new driver, has failed to open the
\* device: the promise is rejected, and nothing was written or read.
C21_Witness ==
  /\ d_inits = <<"opening">>
  /\ d_init = "rejected"
  /\ d_print = "rejected"
  /\ d_fd = "undefined"
  /\ ~d_initialised
  /\ d_written = <<>>
  /\ d_reads = 0 /\ d_timers = 0

\* C23: a read whose bytes raise no notification, as when the block they
\* complete fails to parse, leaves the cached status as it was and no
\* completed block in the accumulator, and sets the next poll.
C23_ParseFailureSkipped ==
  [][(d_reads' < d_reads /\ Len(d_events') = Len(d_events))
     => /\ d_status' = d_status
        /\ Len(d_statusBlock') < 32
        /\ d_timers' = d_timers + 1]_vars

\* C24: a block is started by the byte PRINT_HEAD_MARK only, every other
\* byte that arrives while the accumulator is empty being dropped: an
\* accumulator that holds bytes begins with PRINT_HEAD_MARK.
C24_OnlyMarkerStarts ==
  d_statusBlock # <<>> => d_statusBlock[1] = PRINT_HEAD_MARK

\* C25: between the callbacks of the reads the accumulator holds 31 bytes at
\* most: a block of 32 bytes is parsed and the accumulator emptied, whether
\* the parse succeeds or throws.
C25_AccumulatorBelow32 == Len(d_statusBlock) < 32

\* The listener of initialise() is registered and would write to a device
\* that has been closed.
C26_ListenerThrows == d_file = "PTouch.js" /\ d_listening /\ d_fd # "open"

\* What the poll loop is left with when the bytes a step takes come in two
\* reads, the first of m bytes: the accumulator, the cached status, the
\* notifications raised and whether the loop was left by an exception, after
\* which it makes no second read.
C26_InTwoReads(m) ==
  LET first == pollBytes(d_file, SubSeq(C14_Taken, 1, m), 1,
                         PollStart(d_statusBlock, d_status, <<>>),
                         C26_ListenerThrows)
  IN IF first.thrown THEN first
     ELSE pollBytes(d_file, SubSeq(C14_Taken, m + 1, Len(C14_Taken)), 1,
                    PollStart(first.statusBlock, first.status, first.events),
                    C26_ListenerThrows /\ first.events = <<>>)

\* C26: the bytes a read delivers leave the same accumulator and the same
\* cached status, and raise the same notifications in the same order, as
\* the same bytes delivered in two reads split at any place, the empty read
\* among them; so every way of splitting a stream over the reads of a poll
\* loop gives the same sequence of parsed blocks.
C26_SplitIndependent ==
  [][d_reads' < d_reads
     => \A m \in 0..Len(C14_Taken) :
          \E two \in {C26_InTwoReads(m)} :
            /\ two.statusBlock = d_statusBlock'
            /\ two.status = d_status'
            /\ d_events \o two.events = d_events']_vars

\* A read has ended inside the second of two blocks, after the first was
\* parsed: the second block is in two reads.
C26_Witness ==
  /\ Len(d_events) = 1
  /\ Len(d_statusBlock) = ReadSize - 32
  /\ Len(d_device) = 64 - ReadSize

(***************************************************************************)
(* Claims about the dimensions and the fields of a status                  *)
(***************************************************************************)

\* A whole number that is 0 or more and a multiple of m.
WholeMultiple(v, m) == v[2] = 1 /\ v[1] >= 0 /\ v[1] % m = 0

\* The raster of a status is byte-aligned.
ByteAligned(status) ==
  /\ WholeMultiple(Padding(status), 8)
  /\ WholeMultiple(ByteCount(status), 1)

\* C31: for every status the driver can hold, built from a default status
\* block or parsed from a report, padding_px = (raster_px -
\* printable_width_px) / 2 is a non-negative multiple of 8 and byte_count =
\* (padding_px + printable_width_px) / 8 is a whole number.
C31_ByteAligned ==
  /\ s_new.ok => ByteAligned(s_new.value)
  /\ s_old.ok => ByteAligned(s_old.value)

\* A report of 32 bytes whose head mark and codes are right and whose device
\* code is in the table of the class that parses it.
Parsable(raw, model) == raw \in HeadedReports /\ model # NoModel

\* C32: the phase of a parsed report is decided by bytes 19 and 21 only:
\* byte 19 = 0 gives Receiving (READY), or Feeding when byte 21 = 1; byte 19
\* = 1 gives Printing, whatever byte 21 is.
C32_PhaseFromBytes ==
  /\ (s_new # NoResult /\ Parsable(s_raw, getModelByDeviceCode(At(s_raw, 4))))
       => /\ At(s_raw, 19) = 0
               => /\ s_new.ok
                  /\ s_new.value.phase = (IF At(s_raw, 21) = 1 THEN 2 ELSE 0)
          /\ At(s_raw, 19) = 1 => s_new.ok /\ s_new.value.phase = 1
  /\ (s_old # NoResult
      /\ Parsable(s_raw, PrinterStatus_getModelByDeviceCode(At(s_raw, 4))))
       => /\ At(s_raw, 19) = 0
               => /\ s_old.ok
                  /\ s_old.value.phase
                       = (IF At(s_raw, 21) = 1 THEN "Feeding" ELSE "Receiving")
          /\ At(s_raw, 19) = 1 => s_old.ok /\ s_old.value.phase = "Printing"

\* PTouchStatus.Type: the name of a status type.
PTouchStatus_Type(type) ==
  CASE type = 0 -> "REPLY"
    [] type = 1 -> "PRINTED"
    [] type = 2 -> "ERROR"
    [] type = 6 -> "PHASE_CHANGED"
    [] OTHER -> "undefined"

\* C33: the status_type of a parsed report is decided by byte 18: 0 is Reply,
\* 1 is PrintingComplete, 2 is Error and 6 is PhaseChanged; a report whose
\* byte 18 is 0 gives a status whose status_type is Reply, not a status
\* without a type.
C33_TypeFromByte18 ==
  /\ (s_kind = "report" /\ s_new.ok)
       => /\ s_new.value.status_type = At(s_raw, 18)
          /\ PTouchStatus_Type(s_new.value.status_type)
               = (CASE At(s_raw, 18) = 0 -> "REPLY"
                    [] At(s_raw, 18) = 1 -> "PRINTED"
                    [] At(s_raw, 18) = 2 -> "ERROR"
                    [] At(s_raw, 18) = 6 -> "PHASE_CHANGED")
  /\ (s_kind = "report" /\ s_old.ok)
       => /\ At(s_raw, 18) = 0 => s_old.value.status_type # "undefined"
          /\ At(s_raw, 18) = 1 => s_old.value.status_type = "Printing complete"
          /\ At(s_raw, 18) = 2 => s_old.value.status_type = "Error occurred"
          /\ At(s_raw, 18) = 6 => s_old.value.status_type = "Phase change"

(***************************************************************************)
(* Claims about the status the driver caches                               *)
(***************************************************************************)

\* this.status of a driver just made that is sent one report and nothing
\* else.
FreshDriverStatus(file, report) ==
  pollBytes(file, report, 1,
            PollStart(<<>>, FirstStatus(file, DefaultModel), <<>>),
            FALSE).status

\* The bytes the blocks of a read are made of: what the accumulator held and
\* the bytes the read took.
C34_Bytes == d_statusBlock \o C14_Taken

C35_BoundedRetry ==
  /\ [](a_pc # "rejected")
  /\ (a_pc = "wrote") ~> (a_pc \in {"resolved", "rejected"})

(***************************************************************************)
(* Further claims about the raster encoder                                 *)
(***************************************************************************)

\* C36: the loop of printImage over the tape runs ends for every image size
\* and every status the driver can hold, the status of a report whose media
\* width is 0 (no tape) included, whose printable width is clamped to 0.
C36_TapeRunsEnd == i_result.outcome # "hang"

(***************************************************************************)
(* Further claims about the driver                                         *)
(***************************************************************************)

\* C37: in every reachable state, initialised = true implies that the
\* handle of the device is open; a status report that arrives for a pending
\* initialise() after close() does not set initialised.
C37_InitialisedIsOpen == d_initialised => d_fd = "open"

\* C38: a status block is never put together from the bytes of two
\* sessions: close() leaves the accumulator empty, so the bytes of a partial
\* block read before close() are not joined by bytes read after a later
\* initialise().
C38_CloseEmptiesAccumulator ==
  [][(d_fd = "open" /\ d_fd' = "undefined") => d_statusBlock' = <<>>]_vars

\* ---------------------------------------------------------------------
\* A driver that is opened and stays open, on a device that delivers what
\* it holds: the client calls initialise(), nobody closes the device, and a
\* read brings bytes whenever the device holds any.

\* What precedes the report in the stream: nothing, a report, zeros, a stray non-zero
\* byte, a stray head mark, and a block that was cut short.
PrecededStreams ==
  LET r == Report(89, 12, 0, 0, 0, 0)
  IN {r, r \o r, <<0, 0>> \o r, <<255>> \o r, <<128>> \o r,
      SubSeq(r, 1, 20) \o r}

DeliveringInit == DriverMade(PrecededStreams)

\* A read that brings bytes whenever the device holds any.
PollDelivered ==
  /\ PollRead
  /\ d_device # <<>> => d_device' # d_device

DeliveringNext ==
  \/ Initialise
  \/ InitOpened
  \/ InitPollStatus
  \/ InitSendStatus
  \/ InitAwait
  \/ InitStarted
  \/ PollDelivered
  \/ PollTimer

\* The promise chain of initialise() and the timer of the poll run when they
\* can, and a read under way completes.
SpecDelivering ==
  /\ DeliveringInit
  /\ [][DeliveringNext]_vars
  /\ WF_vars(Initialise)
  /\ WF_vars(InitOpened)
  /\ WF_vars(InitPollStatus)
  /\ WF_vars(InitSendStatus)
  /\ WF_vars(InitAwait)
  /\ WF_vars(InitStarted)
  /\ WF_vars(PollTimer)
  /\ []<>(d_reads = 0)

LastReport(stream) == SubSeq(stream, Len(stream) - 31, Len(stream))

\* C39: every well-formed 32-byte status report the device delivers
\* contiguously while the driver is open is eventually parsed and notified,
\* whatever bytes precede it in the stream (stray non-zero bytes, a stray
\* 0x80, a truncated earlier block).
C39_ReportEventuallyNotified ==
  \A stream \in PrecededStreams :
    (d_device = stream /\ ~d_write_only)
      => <>(\E i \in 1..Len(d_events) :
              d_events[i].state = FreshDriverStatus(d_file, LastReport(stream)))

\* `short` is the beginning of `long`.
IsPrefix(short, long) ==
  /\ Len(short) <= Len(long)
  /\ SubSeq(long, 1, Len(short)) = short

\* Device codes and names are unique in the table, and no name begins with
\* the name of an entry before it.
C40_Identities(table) ==
  \A i, j \in 1..Len(table) :
    i < j => /\ table[i].deviceCode # table[j].deviceCode
             /\ table[i].name # table[j].name
             /\ Chars(table[i].name) # Chars(table[j].name)
             /\ ~IsPrefix(Chars(table[i].name), Chars(table[j].name))

\* C40: every entry of the table is retrievable by its own identity: device
\* codes and names are unique, no earlier entry's name is a prefix of a
\* later entry's name, and for every model m of the table the lookup by
\* m.deviceCode returns m and the lookup by m.name returns m.
C40_RetrievableByIdentity ==
  /\ C40_Identities(MODELS)
  /\ C40_Identities(PrinterStatus_MODELS)
  /\ m_found # NoResult =>
       \A i \in 1..Len(C22_Table) :
         /\ (m_lookup.by = "code" /\ m_lookup.arg = C22_Table[i].deviceCode)
              => m_found = Returned(C22_Table[i])
         /\ (m_lookup.by = "name" /\ m_lookup.arg = Chars(C22_Table[i].name))
              => m_found = Returned(C22_Table[i])

\* PT-P900 has been looked up by its name in the table of Models, where
\* PT-P900W stands before it, and the entry with device code 0x71 was found.
C40_Witness ==
  /\ m_lookup = [by |-> "name", file |-> "part_001",
                 arg |-> Chars("PT-P900")]
  /\ m_found.ok
  /\ m_found.value = MODELS[8]
  /\ m_found.value.deviceCode = 113
  /\ MODELS[6].name = "PT-P900W"

====
